---------------------------- MODULE Spec2Model ----------------------------
(***************************************************************************)
(* A model of the memory relevance and recommendation engine of Text2Cal:  *)
(*   backend/text2cal/memory_analyzer.py  (MemoryAnalyzer)                  *)
(*   backend/memory_model.py              (MemoryModel)                     *)
(*   backend/recommendation.py            (MemoryRecommendationEngine)      *)
(*                                                                         *)
(* Numbers.  Python floats are modelled as exact rationals <<n, d>> with   *)
(* d > 0 in lowest terms; <<0, 0>> is the float NaN.  Rounding of binary   *)
(* floating point is not modelled: a sum that is 1.0 up to rounding in the *)
(* program is exactly 1 here.  exp() is a table of three-digit rationals.  *)
(* Time is counted in hours; a day has 24 hours.                           *)
(***************************************************************************)
EXTENDS Integers, Sequences, FiniteSets, TLC

VARIABLES
    relevance_weights,  \* MemoryAnalyzer.relevance_weights: key -> rational
    strategy_weights,   \* MemoryRecommendationEngine.strategy_weights
    embeddings_cache,   \* MemoryModel.embeddings_cache: text -> vector
    embedding_api_key,  \* MemoryModel.embedding_api_key is set (a BOOLEAN)
    embedding_dimension,\* MemoryModel.embedding_dimension
    embedding_provider, \* MemoryAnalyzer.embedding_provider is the model's
                        \* get_embedding (TRUE) or None (FALSE)
    api_up,             \* environment: the external embedding call succeeds
    ncalls,             \* number of public calls made so far (history)
    call,               \* the last public call and its arguments (history)
    ret,                \* what the last public call returned or raised
    first_since_clear,  \* text -> vector its first get_embedding returned
                        \* since the last clear_embedding_cache (history)
    first_ever          \* text -> vector its first get_embedding ever
                        \* returned (history)

vars == <<relevance_weights, strategy_weights, embeddings_cache,
          embedding_api_key, embedding_dimension, embedding_provider, api_up,
          ncalls, call, ret, first_since_clear, first_ever>>

None == "None"

\* F(e) with e evaluated once (a LET definition is evaluated again at each
\* of its uses).
With(e, F(_)) == CHOOSE v \in {F(x) : x \in {e}} : TRUE

(***************************************************************************)
(* Rational arithmetic with NaN                                            *)
(***************************************************************************)
Abs(x) == IF x < 0 THEN -x ELSE x

RECURSIVE GCD(_, _)
GCD(a, b) == IF b = 0 THEN a ELSE GCD(b, a % b)

NaN == <<0, 0>>

IsNaN(x) == x[2] = 0

Rat(n, d) ==
    IF d = 0 THEN NaN
    ELSE LET g == GCD(Abs(n), Abs(d))
             s == IF d < 0 THEN -1 ELSE 1
         IN  <<(s * n) \div g, (s * d) \div g>>

Zero == <<0, 1>>
One  == <<1, 1>>

\* The operands are in lowest terms; common factors are cancelled before
\* multiplying, which keeps the intermediate integers small.
RAdd(a, b) ==
    IF IsNaN(a) \/ IsNaN(b) THEN NaN
    ELSE LET g == GCD(a[2], b[2])
         IN  Rat(a[1] * (b[2] \div g) + b[1] * (a[2] \div g), (a[2] \div g) * b[2])

RMul(a, b) ==
    IF IsNaN(a) \/ IsNaN(b) THEN NaN
    ELSE IF a[1] = 0 \/ b[1] = 0 THEN <<0, 1>>
    ELSE LET g == GCD(Abs(a[1]), b[2])
             h == GCD(Abs(b[1]), a[2])
         IN  Rat((a[1] \div g) * (b[1] \div h), (a[2] \div h) * (b[2] \div g))

\* a / b for floats whose quotient is finite or 0/0 (numpy: 0/0 is NaN).
RDiv(a, b) ==
    IF IsNaN(a) \/ IsNaN(b) \/ b[1] = 0 THEN NaN
    ELSE RMul(a, Rat(b[2], b[1]))

\* Every comparison with NaN is false, as for IEEE floats.
RLt(a, b) ==
    /\ ~IsNaN(a)
    /\ ~IsNaN(b)
    /\ LET g == GCD(a[2], b[2]) IN a[1] * (b[2] \div g) < b[1] * (a[2] \div g)
RGt(a, b) == RLt(b, a)
RLe(a, b) ==
    /\ ~IsNaN(a)
    /\ ~IsNaN(b)
    /\ LET g == GCD(a[2], b[2]) IN a[1] * (b[2] \div g) <= b[1] * (a[2] \div g)
RGe(a, b) == RLe(b, a)

\* Python's builtin max(a, b) and min(a, b): the first argument is kept
\* unless the second compares strictly greater (smaller).
PyMax(a, b) == IF RGt(b, a) THEN b ELSE a
PyMin(a, b) == IF RLt(b, a) THEN b ELSE a

RECURSIVE SumOver(_, _)
SumOver(f, S) ==
    IF S = {} THEN Zero
    ELSE LET k == CHOOSE x \in S : TRUE
         IN  RAdd(f[k], SumOver(f, S \ {k}))

(***************************************************************************)
(* MemoryAnalyzer.relevance_weights and update_relevance_weights           *)
(***************************************************************************)
WeightKeys == {"recency", "frequency", "similarity", "importance"}

DefaultRelevanceWeights ==
    [k \in WeightKeys |->
        CASE k = "recency"    -> Rat(3, 10)
          [] k = "frequency"  -> Rat(2, 10)
          [] k = "similarity" -> Rat(4, 10)
          [] k = "importance" -> Rat(1, 10)]

\* dict.update: the keys of new_weights replace those of the weights.
MergeWeights(w, new_weights) ==
    [k \in DOMAIN w |-> IF k \in DOMAIN new_weights THEN new_weights[k] ELSE w[k]]

\* Lines 317-320: divide by the total, only when the total is positive.
NormalizeWeights(w) ==
    LET total_weight == SumOver(w, DOMAIN w)
    IN  IF RGt(total_weight, Zero)
        THEN [k \in DOMAIN w |-> RDiv(w[k], total_weight)]
        ELSE w

\* Lines 309-311: some key of new_weights is not a relevance weight.
HasInvalidKey(w, new_weights) == \E k \in DOMAIN new_weights : k \notin DOMAIN w

\* The state change of a faulty variant that merges before it validates.
UpdateWeightsMergeFirst(w, new_weights) ==
    IF HasInvalidKey(w, new_weights)
    THEN [weights |-> MergeWeights(w, [k \in DOMAIN new_weights \cap DOMAIN w |-> new_weights[k]]),
          result  |-> "ValueError"]
    ELSE [weights |-> NormalizeWeights(MergeWeights(w, new_weights)),
          result  |-> None]

\* update_relevance_weights as a function of the weights before the call:
\* the weights after it and what the call returns (None) or raises.
UpdateWeights(w, new_weights) ==
    IF HasInvalidKey(w, new_weights)
    THEN [weights |-> w, result |-> "ValueError"]
    ELSE [weights |-> NormalizeWeights(MergeWeights(w, new_weights)),
          result  |-> None]

(***************************************************************************)
(* Texts.  A text is the sequence of its whitespace-separated words, so    *)
(* text.split() is the text itself and text.lower() lowers each word.      *)
(***************************************************************************)
Lower(word) ==
    CASE word = "Meeting" -> "meeting"
      [] word = "Lunch"   -> "lunch"
      [] OTHER            -> word

LowerWords(text) == [i \in DOMAIN text |-> Lower(text[i])]

WordSet(text) == {Lower(text[i]) : i \in DOMAIN text}

TMeeting == <<"meeting">>
TLunch   == <<"lunch">>
THello   == <<"hello">>
TMixed   == <<"meeting", "meeting", "meeting", "lunch", "lunch", "lunch", "lunch">>
TCaps    == <<"Meeting", "hello">>
TEmpty   == <<>>

(***************************************************************************)
(* Vectors: sequences of rationals (numpy arrays of floats)                *)
(***************************************************************************)
NoVector == <<>>

RECURSIVE SumSeq(_)
SumSeq(s) == IF s = <<>> THEN Zero ELSE RAdd(Head(s), SumSeq(Tail(s)))

\* The exact square root of a rational that is a perfect square; the texts
\* and vectors of the model are chosen so that every norm is rational.
ISqrt(n) == CHOOSE r \in 0..n : r * r = n
RSqrt(x) == Rat(ISqrt(x[1]), ISqrt(x[2]))

\* np.dot of two vectors of the same length.
Dot(a, b) == SumSeq([i \in DOMAIN a |-> RMul(a[i], b[i])])

\* np.linalg.norm
Norm(a) == RSqrt(Dot(a, a))

Zeros(n) == [i \in 1..n |-> Zero]

(***************************************************************************)
(* MemoryModel: get_embedding, its two sources, clear_embedding_cache      *)
(***************************************************************************)
\* The vocabulary of _get_simple_embedding in its iteration order.  The
\* program's vocabulary has 27 words; the model keeps two of them.
Vocab == <<"meeting", "lunch">>

\* words.count(word)
CountWord(words, word) == Cardinality({i \in DOMAIN words : words[i] = word})

\* _get_simple_embedding: bag of vocabulary words, L2-normalised, then
\* zero-padded or truncated to the embedding dimension.
SimpleEmbedding(text, dimension) ==
    LET Counts(words) ==
            [i \in DOMAIN Vocab |-> Rat(CountWord(words, Vocab[i]), 1)]
        Normalized(counts) ==
            LET Scaled(norm) ==
                    IF RGt(norm, Zero)
                    THEN [i \in DOMAIN counts |-> RDiv(counts[i], norm)]
                    ELSE counts
            IN  With(Norm(counts), Scaled)
        Fitted(vector) ==
            IF Len(vector) < dimension
            THEN [i \in 1..dimension |-> IF i <= Len(vector) THEN vector[i] ELSE Zero]
            ELSE SubSeq(vector, 1, dimension)
    IN  With(With(With(LowerWords(text), Counts), Normalized), Fitted)

\* _get_openai_embedding when the request succeeds: the vector the remote
\* model gives the text.  The remote model is taken to be a function of the
\* text; its vectors have three components whatever embedding_dimension is.
OpenAIEmbedding(text) ==
    CASE text = TMeeting -> <<Rat(3, 5), Rat(4, 5), Zero>>
      [] text = TLunch   -> <<Rat(4, 5), Rat(3, 5), Zero>>
      [] text = THello   -> <<Zero, Zero, One>>
      [] text = TMixed   -> <<One, Zero, Zero>>
      [] text = TCaps    -> <<Rat(3, 5), Zero, Rat(4, 5)>>
      [] OTHER           -> <<Zero, One, Zero>>

\* What one get_embedding call does, as a record: the cache after the call,
\* the status and the vector returned, whether the text was missing from
\* the cache, and what became of the external call ("skipped" when none was
\* made).
EmbeddingResult(cache, status, value, miss, api) ==
    [cache |-> cache, status |-> status, value |-> value, miss |-> miss, api |-> api]

\* A faulty variant of get_embedding whose cache holds one text: a miss
\* evicts what was cached before.
GetEmbeddingEvicting(cache, text, key, up, dimension) ==
    IF text \in DOMAIN cache
    THEN EmbeddingResult(cache, "ok", cache[text], FALSE, "skipped")
    ELSE IF key /\ up
    THEN EmbeddingResult((text :> OpenAIEmbedding(text)), "ok",
                         OpenAIEmbedding(text), TRUE, "ok")
    ELSE EmbeddingResult((text :> SimpleEmbedding(text, dimension)), "ok",
                         SimpleEmbedding(text, dimension), TRUE,
                         IF key THEN "failed" ELSE "skipped")

\* A faulty variant of get_embedding that lets the failure of the external
\* call reach the caller.
GetEmbeddingNoFallback(cache, text, key, up, dimension) ==
    IF text \in DOMAIN cache
    THEN EmbeddingResult(cache, "ok", cache[text], FALSE, "skipped")
    ELSE IF key /\ up
    THEN EmbeddingResult(cache @@ (text :> OpenAIEmbedding(text)), "ok",
                         OpenAIEmbedding(text), TRUE, "ok")
    ELSE IF key
    THEN EmbeddingResult(cache, "Exception", NoVector, TRUE, "failed")
    ELSE EmbeddingResult(cache @@ (text :> SimpleEmbedding(text, dimension)), "ok",
                         SimpleEmbedding(text, dimension), TRUE, "skipped")

\* A faulty variant of get_embedding that caches external vectors only.
GetEmbeddingNoFallbackCache(cache, text, key, up, dimension) ==
    IF text \in DOMAIN cache
    THEN EmbeddingResult(cache, "ok", cache[text], FALSE, "skipped")
    ELSE IF key /\ up
    THEN EmbeddingResult(cache @@ (text :> OpenAIEmbedding(text)), "ok",
                         OpenAIEmbedding(text), TRUE, "ok")
    ELSE EmbeddingResult(cache, "ok", SimpleEmbedding(text, dimension), TRUE,
                         IF key THEN "failed" ELSE "skipped")

\* get_embedding as a function of the cache before the call.
\* key: an API key is configured; up: the external call would succeed.
GetEmbedding(cache, text, key, up, dimension) ==
    IF text \in DOMAIN cache
    THEN EmbeddingResult(cache, "ok", cache[text], FALSE, "skipped")
    ELSE IF key /\ up
    THEN EmbeddingResult(cache @@ (text :> OpenAIEmbedding(text)), "ok",
                         OpenAIEmbedding(text), TRUE, "ok")
    ELSE EmbeddingResult(cache @@ (text :> SimpleEmbedding(text, dimension)), "ok",
                         SimpleEmbedding(text, dimension), TRUE,
                         IF key THEN "failed" ELSE "skipped")

(***************************************************************************)
(* The state after construction (MemoryModel(), MemoryAnalyzer(...),       *)
(* MemoryRecommendationEngine(...)) and the public operations as actions   *)
(***************************************************************************)
StrategyKeys == {"content_similarity", "temporal_relevance", "user_behavior"}

DefaultStrategyWeights ==
    [k \in StrategyKeys |->
        CASE k = "content_similarity" -> Rat(5, 10)
          [] k = "temporal_relevance" -> Rat(3, 10)
          [] k = "user_behavior"      -> Rat(2, 10)]

\* The texts callers embed, and the configured embedding dimensions: below
\* and above the size of the vocabulary (truncation and zero-padding); the
\* larger one is the dimension of the remote model's vectors.
Texts == {TMeeting, TLunch, THello, TMixed}
AllTexts == Texts \cup {TCaps, TEmpty}
EmbeddingDimensions == {1, 3}

NoCall == [op |-> "none"]
NoRet  == [status |-> "none", value |-> NoVector]

Constructed ==
    /\ relevance_weights = DefaultRelevanceWeights
    /\ strategy_weights = DefaultStrategyWeights
    /\ embeddings_cache = <<>>
    /\ ncalls = 0
    /\ call = NoCall
    /\ ret = NoRet
    /\ first_since_clear = [t \in AllTexts |-> NoVector]
    /\ first_ever = [t \in AllTexts |-> NoVector]

analyzer_vars == <<relevance_weights>>
engine_vars   == <<strategy_weights>>
model_vars    == <<embeddings_cache, first_since_clear, first_ever>>
config_vars   == <<embedding_api_key, embedding_dimension, embedding_provider>>

\* MemoryModel.get_embedding(text)
get_embedding(text) ==
    \E r \in {GetEmbedding(embeddings_cache, text, embedding_api_key, api_up,
                           embedding_dimension)} :
        /\ embeddings_cache' = r.cache
        /\ call' = [op |-> "get_embedding", text |-> text, miss |-> r.miss,
                    api |-> r.api, again |-> first_since_clear[text] # NoVector]
        /\ ret' = [status |-> r.status, value |-> r.value]
        /\ first_since_clear' =
              IF r.status = "ok" /\ first_since_clear[text] = NoVector
              THEN [first_since_clear EXCEPT ![text] = r.value]
              ELSE first_since_clear
        /\ first_ever' =
              IF r.status = "ok" /\ first_ever[text] = NoVector
              THEN [first_ever EXCEPT ![text] = r.value]
              ELSE first_ever
        /\ UNCHANGED <<analyzer_vars, engine_vars, config_vars, api_up, ncalls>>

\* MemoryModel.clear_embedding_cache()
clear_embedding_cache ==
    /\ embeddings_cache' = <<>>
    /\ call' = [op |-> "clear_embedding_cache"]
    /\ ret' = [status |-> "ok", value |-> NoVector]
    /\ first_since_clear' = [t \in AllTexts |-> NoVector]
    /\ UNCHANGED <<analyzer_vars, engine_vars, config_vars, api_up, ncalls, first_ever>>

\* The environment: the external embedding service goes down, comes back.
ApiFails ==
    /\ api_up
    /\ api_up' = FALSE
    /\ UNCHANGED <<analyzer_vars, engine_vars, model_vars, config_vars, ncalls, call, ret>>

ApiRecovers ==
    /\ ~api_up
    /\ api_up' = TRUE
    /\ UNCHANGED <<analyzer_vars, engine_vars, model_vars, config_vars, ncalls, call, ret>>

InitEmbed ==
    /\ Constructed
    /\ embedding_api_key \in BOOLEAN
    /\ embedding_dimension \in EmbeddingDimensions
    /\ embedding_provider = TRUE
    /\ api_up \in BOOLEAN

NextEmbed ==
    \/ \E text \in Texts : get_embedding(text)
    \/ clear_embedding_cache
    \/ ApiFails
    \/ ApiRecovers

\* The embedding provider on its own: get_embedding and
\* clear_embedding_cache called in any order while the service comes and goes.
SpecEmbed == InitEmbed /\ [][NextEmbed]_vars

\* C8: two get_embedding calls of one text with no clear_embedding_cache
\* between them return the same vector, and the second is a cache hit,
\* whatever is embedded and however the service's availability changes in
\* between.
C8_SecondCallCacheHit ==
    (call.op = "get_embedding" /\ call.again)
    => (/\ ret.status = "ok"
        /\ ~call.miss
        /\ ret.value = first_since_clear[call.text])

\* A repeated call answered from the cache with the remote model's vector
\* while the service is down, another text having been embedded as well.
C8_Witness ==
    /\ call.op = "get_embedding" /\ call.again
    /\ embedding_api_key /\ ~api_up
    /\ ret.value = OpenAIEmbedding(call.text)
    /\ \E t \in DOMAIN embeddings_cache :
          t # call.text /\ embeddings_cache[t] = SimpleEmbedding(t, embedding_dimension)

\* C9: any two get_embedding calls of one text on the same MemoryModel return
\* the same vector, whatever happens between them (other embeds, service
\* failures and recoveries, clear_embedding_cache).
C9_SameVectorForLifetime ==
    call.op = "get_embedding" => ret.value = first_ever[call.text]

\* C10: whenever no API key is configured, or the external call of a
\* get_embedding fails, the call returns the locally computed fallback
\* vector, not an error, and the cache holds that vector for the text.
C10_FailureFallsBack ==
    (call.op = "get_embedding" /\ (~embedding_api_key \/ call.api = "failed"))
    => (/\ ret.status = "ok"
        /\ ret.value = SimpleEmbedding(call.text, embedding_dimension)
        /\ call.text \in DOMAIN embeddings_cache
        /\ embeddings_cache[call.text] = ret.value)

\* A call whose external request failed, with a key configured, for a text
\* whose fallback vector is not the zero vector.
C10_Witness ==
    /\ call.op = "get_embedding"
    /\ embedding_api_key /\ call.api = "failed"
    /\ ret.value = SimpleEmbedding(call.text, embedding_dimension)
    /\ ret.value # Zeros(embedding_dimension)

(***************************************************************************)
(* MemoryAnalyzer.update_relevance_weights(new_weights)                    *)
(***************************************************************************)
MaxUpdates == 2

\* The weights a caller passes: any mapping from some of the four keys, and
\* possibly an unknown key, to one of these numbers.
WeightValues == {Zero, One}
NewWeightMaps ==
    UNION {[D -> WeightValues] : D \in SUBSET (WeightKeys \cup {"bogus"})}

update_relevance_weights(new_weights) ==
    \E r \in {UpdateWeights(relevance_weights, new_weights)} :
        /\ ncalls < MaxUpdates
        /\ relevance_weights' = r.weights
        /\ ncalls' = ncalls + 1
        /\ call' = [op |-> "update_relevance_weights", new_weights |-> new_weights,
                    weights_before |-> relevance_weights]
        /\ ret' = [status |-> IF r.result = None THEN "ok" ELSE r.result,
                   value |-> NoVector]
        /\ UNCHANGED <<engine_vars, model_vars, config_vars, api_up>>

InitWeights ==
    /\ Constructed
    /\ embedding_api_key = FALSE
    /\ embedding_dimension \in EmbeddingDimensions
    /\ embedding_provider = TRUE
    /\ api_up = FALSE

NextWeights == \E new_weights \in NewWeightMaps : update_relevance_weights(new_weights)

\* The relevance weights under any sequence of updates.
SpecWeights == InitWeights /\ [][NextWeights]_vars

\* C4: after any sequence of update_relevance_weights calls the four
\* relevance weights sum to 1.0.
C4_WeightsSumToOne == SumOver(relevance_weights, WeightKeys) = One

\* C5: a call of update_relevance_weights whose mapping has a key outside the
\* four weight keys raises ValueError and leaves the four weights as they
\* were before the call, also when the mapping has valid keys as well.
C5_InvalidKeyRejected ==
    (call.op = "update_relevance_weights"
       /\ \E k \in DOMAIN call.new_weights : k \notin WeightKeys)
    => (ret.status = "ValueError" /\ relevance_weights = call.weights_before)

\* A rejected update that also carried a valid key with a new value, made
\* after an accepted update had changed the weights.
C5_Witness ==
    /\ call.op = "update_relevance_weights"
    /\ "bogus" \in DOMAIN call.new_weights
    /\ \E k \in DOMAIN call.new_weights \cap WeightKeys :
          call.new_weights[k] # call.weights_before[k]
    /\ ret.status = "ValueError"
    /\ call.weights_before # DefaultRelevanceWeights

(***************************************************************************)
(* Log entries: Python dicts, modelled as functions whose domain is the    *)
(* set of keys present.  start_time is the hour the ISO string denotes.    *)
(***************************************************************************)
\* dict.get(key, default)
Get(log, key, default) == IF key \in DOMAIN log THEN log[key] ELSE default

\* log.get('id'): None when the entry has no id.
IdOf(log) == Get(log, "id", None)

\* datetime.fromisoformat(log.get('start_time', datetime.now().isoformat()))
\* of an entry whose start_time is in ISO format
DateOf(log, now) == Get(log, "start_time", now)

\* The start_time of an entry whose string is not in ISO format.
BadTime == -1000000

\* datetime.fromisoformat accepts the entry's start_time (or the entry has
\* none and the clock's own string is parsed); otherwise it raises
\* ValueError.
Parseable(log) == Get(log, "start_time", 0) # BadTime

\* timedelta.days of a difference given in hours: the floor of delta / 24.
Days(delta) == delta \div 24

\* exp(-days / 30) in thousandths, for days in -5 .. 10.
Exp30Table ==
    <<1181, 1143, 1105, 1069, 1034, 1000, 967, 936, 905, 875, 846, 819, 792,
      766, 741, 717>>
ExpDecay30(days) == Rat(Exp30Table[days + 6], 1000)

\* exp(-days / 7) in thousandths, for days in 0 .. 10.
Exp7Table == <<1000, 867, 751, 651, 565, 490, 424, 368, 319, 276, 240>>
ExpDecay7(days) == Rat(Exp7Table[days + 1], 1000)

(***************************************************************************)
(* MemoryAnalyzer: scores                                                  *)
(***************************************************************************)
\* compute_recency_score(log_date, current_date)
ComputeRecencyScore(log_date, current_date) ==
    LET days_diff == Days(current_date - log_date)
        score     == ExpDecay30(days_diff)
    IN  PyMin(PyMax(score, Zero), One)

\* Lines 109-120: Jaccard similarity of the lower-cased word sets.
WordOverlap(log_content, query_content) ==
    LET log_words   == WordSet(log_content)
        query_words == WordSet(query_content)
    IN  IF log_words = {} \/ query_words = {} THEN Zero
        ELSE Rat(Cardinality(log_words \cap query_words),
                 Cardinality(log_words \cup query_words))

\* Lines 102-104: the cosine of two vectors of one length; 0/0 is NaN.
Cosine(a, b) == RDiv(Dot(a, b), RMul(Norm(a), Norm(b)))

\* compute_similarity_score(log_content, query_content).  m is the
\* configuration [provider, key, up, dimension]: whether the analyzer has
\* the model's get_embedding as its embedding provider, and the model's
\* settings.  Gives the cache after the call and the score.  An exception in
\* the embedding path (a failed provider, np.dot on vectors of two lengths)
\* is caught and the word overlap is returned.
ComputeSimilarityScore(cache, log_content, query_content, m) ==
    IF m.provider
    THEN LET Second(r1, r2) ==
                 IF r1.status = "ok" /\ r2.status = "ok" /\ Len(r1.value) = Len(r2.value)
                 THEN [cache |-> r2.cache, value |-> Cosine(r1.value, r2.value)]
                 ELSE [cache |-> r2.cache, value |-> WordOverlap(log_content, query_content)]
             First(r1) ==
                 LET Then(r2) == Second(r1, r2)
                 IN  With(IF r1.status = "ok"
                          THEN GetEmbedding(r1.cache, query_content, m.key, m.up, m.dimension)
                          ELSE r1, Then)
         IN  With(GetEmbedding(cache, log_content, m.key, m.up, m.dimension), First)
    ELSE [cache |-> cache, value |-> WordOverlap(log_content, query_content)]

\* max(logs_access_frequency.values()) of a non-empty dict of integers
MaxValue(f) == CHOOSE v \in {f[k] : k \in DOMAIN f} : \A k \in DOMAIN f : f[k] <= v

\* Lines 150-152
FrequencyScore(log_id, logs_access_frequency) ==
    LET max_access == IF DOMAIN logs_access_frequency # {}
                      THEN MaxValue(logs_access_frequency) ELSE 1
    IN  IF max_access > 0
        THEN Rat(Get(logs_access_frequency, log_id, 0), max_access)
        ELSE Zero

\* Lines 154-162: the weighted sum, then min(max(relevance, 0), 1).
CombineScores(w, recency_score, similarity_score, frequency_score, log_importance) ==
    LET relevance ==
            RAdd(RAdd(RAdd(RMul(w["recency"], recency_score),
                           RMul(w["similarity"], similarity_score)),
                      RMul(w["frequency"], frequency_score)),
                 RMul(w["importance"], log_importance))
    IN  PyMin(PyMax(relevance, Zero), One)

\* compute_memory_relevance(log, query, logs_access_frequency, current_date)
\* under weights w: the cache after the call and the relevance.
ComputeMemoryRelevance(cache, w, log, query, logs_access_frequency, now, m) ==
    LET log_id         == IdOf(log)
        log_content    == Get(log, "content", TEmpty)
        log_date       == DateOf(log, now)
        log_importance == Get(log, "importance", Rat(1, 2))
        recency_score  == ComputeRecencyScore(log_date, now)
        frequency_score == FrequencyScore(log_id, logs_access_frequency)
        Combined(sim) ==
            [cache |-> sim.cache,
             status |-> "ok",
             value |-> CombineScores(w, recency_score, sim.value, frequency_score,
                                     log_importance)]
    IN  IF ~Parseable(log)
        THEN [cache |-> cache, status |-> "ValueError", value |-> NaN]
        ELSE With(ComputeSimilarityScore(cache, log_content, query, m), Combined)

(***************************************************************************)
(* Python's list.sort and slicing                                          *)
(***************************************************************************)
Reverse(s) == [i \in DOMAIN s |-> s[Len(s) + 1 - i]]

\* One insertion of CPython's binarysort: s[1..n-1] is sorted, s[n] is
\* inserted at the place a binary search with "pivot < s[p]" finds.
RECURSIVE BinarySearch(_, _, _, _)
BinarySearch(s, pivot, l, r) ==
    IF l >= r THEN l
    ELSE LET p == l + ((r - l) \div 2)
         IN  IF RLt(pivot[1], s[p][1])
             THEN BinarySearch(s, pivot, l, p)
             ELSE BinarySearch(s, pivot, p + 1, r)

InsertAt(s, n) ==
    LET pivot == s[n]
        Inserted(l) ==
            [i \in DOMAIN s |->
                IF i < l \/ i > n THEN s[i]
                ELSE IF i = l THEN pivot
                ELSE s[i - 1]]
    IN  With(BinarySearch(s, pivot, 1, n), Inserted)

RECURSIVE BinarySort(_, _)
BinarySort(s, start) ==
    IF start > Len(s) THEN s
    ELSE LET Next(t) == BinarySort(t, start + 1) IN With(InsertAt(s, start), Next)

\* count_run: the length of the run that starts the list and whether it is
\* strictly descending.
RECURSIVE RunEnd(_, _, _)
RunEnd(s, i, descending) ==
    IF i > Len(s) THEN i - 1
    ELSE IF RLt(s[i][1], s[i - 1][1]) = descending THEN RunEnd(s, i + 1, descending)
    ELSE i - 1

\* list.sort(key=..., reverse=...) of a list of fewer than 64 elements,
\* given as <<key, item>> pairs: the list is reversed, its leading run is
\* found (and reversed when descending), the rest is inserted by binary
\* insertion, and the list is reversed again.  Only "<" compares keys.
PySort(pairs, reverse) ==
    LET Sorted(s0) ==
            IF Len(s0) < 2 THEN s0
            ELSE LET descending == RLt(s0[2][1], s0[1][1])
                     Rest(run) ==
                         BinarySort(IF descending
                                    THEN [i \in DOMAIN s0 |->
                                             IF i <= run THEN s0[run + 1 - i] ELSE s0[i]]
                                    ELSE s0, run + 1)
                 IN  With(RunEnd(s0, 3, descending), Rest)
        Back(sorted) == IF reverse THEN Reverse(sorted) ELSE sorted
    IN  With(With(IF reverse THEN Reverse(pairs) ELSE pairs, Sorted), Back)

\* seq[:limit]
SliceTo(s, limit) ==
    IF limit >= 0
    THEN SubSeq(s, 1, IF limit < Len(s) THEN limit ELSE Len(s))
    ELSE SubSeq(s, 1, IF Len(s) + limit > 0 THEN Len(s) + limit ELSE 0)

(***************************************************************************)
(* MemoryAnalyzer.find_related_memories                                    *)
(***************************************************************************)
\* Lines 187-192: the copies of the logs with their relevance, in the order
\* of the logs; the cache is threaded through the calls of the provider.
\* A faulty variant of the annotation that writes the key into the entry
\* itself instead of into a copy.
AnnotateInPlace(log, key, value) ==
    [copy |-> (key :> value) @@ log, original |-> (key :> value) @@ log]

\* "copy = log.copy(); copy[key] = value": the annotated copy, and the
\* entry of the caller's list as the two statements leave it.
Annotate(log, key, value) ==
    [copy |-> (key :> value) @@ log, original |-> log]

RECURSIVE ScoreLogs(_, _, _, _, _, _, _, _)
ScoreLogs(cache, w, logs, i, query, logs_access_frequency, now, m) ==
    IF i > Len(logs)
    THEN [cache |-> cache, status |-> "ok", results |-> <<>>, logs |-> <<>>]
    ELSE LET Scored(r) ==
                 LET log_with_relevance == Annotate(logs[i], "relevance", r.value)
                     Rest(rest) ==
                         [cache   |-> rest.cache,
                          status  |-> rest.status,
                          results |-> IF rest.status = "ok"
                                      THEN <<log_with_relevance.copy>> \o rest.results
                                      ELSE <<>>,
                          logs    |-> <<log_with_relevance.original>> \o rest.logs]
                 IN  IF r.status # "ok"
                     THEN [cache |-> r.cache, status |-> r.status, results |-> <<>>,
                           logs |-> SubSeq(logs, i, Len(logs))]
                     ELSE With(ScoreLogs(r.cache, w, logs, i + 1, query,
                                         logs_access_frequency, now, m), Rest)
         IN  With(ComputeMemoryRelevance(cache, w, logs[i], query,
                                         logs_access_frequency, now, m), Scored)

\* find_related_memories(logs, query, logs_access_frequency, max_results)
FindRelatedMemories(cache, w, logs, query, logs_access_frequency, max_results, now, m) ==
    IF logs = <<>>
    THEN [cache |-> cache, status |-> "ok", results |-> <<>>, logs |-> logs]
    ELSE LET Sorted(scored) ==
                 LET pairs == [i \in DOMAIN scored.results |->
                                  <<scored.results[i]["relevance"], scored.results[i]>>]
                     Sliced(sorted) ==
                         [cache   |-> scored.cache,
                          status  |-> "ok",
                          results |-> SliceTo([i \in DOMAIN sorted |-> sorted[i][2]],
                                              max_results),
                          logs    |-> scored.logs]
                 IN  IF scored.status # "ok" THEN scored
                     ELSE With(PySort(pairs, TRUE), Sliced)
         IN  With(ScoreLogs(cache, w, logs, 1, query, logs_access_frequency, now, m),
                  Sorted)

(***************************************************************************)
(* The analyzer's ranking operations as actions                            *)
(***************************************************************************)
\* The configuration the scoring operators read.
ModelConfig ==
    [provider |-> embedding_provider, key |-> embedding_api_key,
     up |-> api_up, dimension |-> embedding_dimension]

\* The history of first vectors after a call that left the cache as given:
\* a text the call embedded for the first time got the vector now cached.
HistoryAfter(hist, cache) ==
    [t \in DOMAIN hist |->
        IF hist[t] = NoVector /\ t \in DOMAIN cache THEN cache[t] ELSE hist[t]]

\* MemoryAnalyzer.compute_memory_relevance(log, query, logs_access_frequency)
\* called at time now.
compute_memory_relevance(log, query, logs_access_frequency, now) ==
    \E r \in {ComputeMemoryRelevance(embeddings_cache, relevance_weights, log, query,
                                     logs_access_frequency, now, ModelConfig)} :
        /\ embeddings_cache' = r.cache
        /\ first_since_clear' = HistoryAfter(first_since_clear, r.cache)
        /\ first_ever' = HistoryAfter(first_ever, r.cache)
        /\ call' = [op |-> "compute_memory_relevance", log |-> log, query |-> query,
                    logs_access_frequency |-> logs_access_frequency, now |-> now]
        /\ ret' = [status |-> r.status, value |-> r.value]
        /\ UNCHANGED <<analyzer_vars, engine_vars, config_vars, api_up, ncalls>>

\* MemoryAnalyzer.find_related_memories(logs, query, logs_access_frequency,
\* max_results) called at time now.
find_related_memories(logs, query, logs_access_frequency, max_results, now) ==
    \E r \in {FindRelatedMemories(embeddings_cache, relevance_weights, logs, query,
                                  logs_access_frequency, max_results, now, ModelConfig)} :
        /\ embeddings_cache' = r.cache
        /\ first_since_clear' = HistoryAfter(first_since_clear, r.cache)
        /\ first_ever' = HistoryAfter(first_ever, r.cache)
        /\ call' = [op |-> "find_related_memories", logs |-> logs, query |-> query,
                    logs_access_frequency |-> logs_access_frequency,
                    max_results |-> max_results, now |-> now,
                    logs_after |-> r.logs]
        /\ ret' = [status |-> r.status, value |-> r.results]
        /\ UNCHANGED <<analyzer_vars, engine_vars, config_vars, api_up, ncalls>>

\* All sequences over S of length at most n.
SeqsUpTo(S, n) == UNION {[1..k -> S] : k \in 0..n}

MaxLogs == 2

\* The inputs of the ranking calls.  The clock reads hour 48; an entry
\* without start_time counts as written now.
RankNow == 48
RankLogs ==
    {[id |-> "a", content |-> TMeeting, start_time |-> 0],
     [id |-> "b", content |-> THello],
     [content |-> TCaps, start_time |-> 30],
     [id |-> "a", content |-> TMixed, start_time |-> 24, importance |-> One]}
RankQueries == {TMeeting, THello}
RankFrequencies == {<<>>, ("a" :> 2) @@ ("b" :> 1)}
RankLimits == {0, 1, 2}
RankWeightMaps ==
    {[similarity |-> One, frequency |-> Zero],
     [recency |-> Zero, frequency |-> Zero, similarity |-> Zero, importance |-> Zero]}

InitRank ==
    /\ Constructed
    /\ embedding_api_key \in BOOLEAN
    /\ embedding_dimension = 3
    /\ embedding_provider \in BOOLEAN
    /\ api_up \in BOOLEAN

\* A ranking call has been made.
Ranked == call.op \in {"compute_memory_relevance", "find_related_memories"}

\* What may precede a ranking call: weight updates, embeddings of the texts
\* through the model, and the service going down and coming back.
RankUpdateWeights ==
    ~Ranked /\ \E new_weights \in RankWeightMaps : update_relevance_weights(new_weights)

RankGetEmbedding ==
    ~Ranked /\ \E text \in RankQueries : get_embedding(text)

RankApiFails == ~Ranked /\ ApiFails

RankApiRecovers == ~Ranked /\ ApiRecovers

RankRelevance ==
    /\ ~Ranked
    /\ \E log \in RankLogs, query \in RankQueries, f \in RankFrequencies :
          compute_memory_relevance(log, query, f, RankNow)

RankFindRelated ==
    /\ ~Ranked
    /\ \E logs \in SeqsUpTo(RankLogs, MaxLogs), query \in RankQueries,
          f \in RankFrequencies, max_results \in RankLimits :
          find_related_memories(logs, query, f, max_results, RankNow)

NextRank ==
    \/ RankUpdateWeights
    \/ RankGetEmbedding
    \/ RankApiFails
    \/ RankApiRecovers
    \/ RankRelevance
    \/ RankFindRelated

\* One ranking call of the analyzer in any state the weights and the
\* embedding cache can be in.  (A ranking call changes nothing but the cache,
\* and only as get_embedding calls do, so a second ranking call starts from
\* a state the prelude reaches.)
SpecRank == InitRank /\ [][NextRank]_vars

\* C1: compute_memory_relevance returns a value in [0,1] for every entry,
\* query, access-frequency map and weights, with the similarity computed
\* from the provider's embeddings or from the word overlap.
C1_RelevanceInUnitInterval ==
    call.op = "compute_memory_relevance"
    => (RLe(Zero, ret.value) /\ RLe(ret.value, One))

\* C2: the list find_related_memories returns is sorted in descending order
\* of relevance and has at most max_results elements, for every list of
\* entries and every integer max_results.
C2_SortedAndLimited ==
    call.op = "find_related_memories"
    => (/\ Len(ret.value) <= call.max_results
        /\ \A i \in 1..(Len(ret.value) - 1) :
              RGe(ret.value[i]["relevance"], ret.value[i + 1]["relevance"]))

(***************************************************************************)
(* MemoryModel.compute_similarity and build_memory_graph                   *)
(***************************************************************************)
\* compute_similarity(embed1, embed2): the cosine of the two vectors, 0.0
\* when it is NaN; status "ValueError" when the shapes differ.
ComputeSimilarity(embed1, embed2) ==
    IF Len(embed1) # Len(embed2)
    THEN [status |-> "ValueError", value |-> NaN]
    ELSE LET Checked(similarity) ==
                 [status |-> "ok",
                  value  |-> IF IsNaN(similarity) THEN Zero ELSE similarity]
         IN  With(Cosine(embed1, embed2), Checked)

\* Lines 199-203: log_embeddings, a dict from id to the embedding of the
\* content, filled in the order of the logs (a later entry with the same id
\* replaces the vector and keeps the key's place), and its keys in order.
RECURSIVE EmbedLogs(_, _, _, _, _, _)
EmbedLogs(cache, logs, i, log_ids, log_embeddings, m) ==
    IF i > Len(logs)
    THEN [cache |-> cache, log_ids |-> log_ids, log_embeddings |-> log_embeddings]
    ELSE LET log_id == IdOf(logs[i])
             Stored(r) ==
                 EmbedLogs(r.cache, logs, i + 1,
                           IF log_id \in DOMAIN log_embeddings
                           THEN log_ids ELSE Append(log_ids, log_id),
                           (log_id :> r.value) @@ log_embeddings, m)
         IN  With(GetEmbedding(cache, Get(logs[i], "content", TEmpty),
                               m.key, m.up, m.dimension), Stored)

\* A faulty variant of the threshold test that drops similarities equal to
\* the threshold.
ConnectedStrictly(similarity, similarity_threshold) ==
    RGt(similarity, similarity_threshold)

\* Line 219: similarity >= similarity_threshold
Connected(similarity, similarity_threshold) ==
    RGe(similarity, similarity_threshold)

\* Lines 213-220: the inner loop for the key at position i, from position j
\* on: the (other_log_id, similarity) pairs in the order of the keys.
RECURSIVE Connections(_, _, _, _, _)
Connections(i, j, log_ids, log_embeddings, similarity_threshold) ==
    IF j > Len(log_ids) THEN [status |-> "ok", value |-> <<>>]
    ELSE IF i = j
    THEN Connections(i, j + 1, log_ids, log_embeddings, similarity_threshold)
    ELSE LET Compared(similarity) ==
                 LET Rest(rest) ==
                         IF rest.status = "ok"
                            /\ Connected(similarity.value, similarity_threshold)
                         THEN [status |-> "ok",
                               value  |-> <<<<log_ids[j], similarity.value>>>>
                                          \o rest.value]
                         ELSE rest
                 IN  IF similarity.status # "ok"
                     THEN [status |-> similarity.status, value |-> <<>>]
                     ELSE With(Connections(i, j + 1, log_ids, log_embeddings,
                                           similarity_threshold), Rest)
         IN  With(ComputeSimilarity(log_embeddings[log_ids[i]],
                                    log_embeddings[log_ids[j]]), Compared)

\* Lines 209-224: the edge list of the key at position i, sorted by
\* similarity, descending.
SortedConnections(i, log_ids, log_embeddings, similarity_threshold) ==
    LET Sorted(found) ==
            IF found.status # "ok" THEN found
            ELSE LET Items(sorted) ==
                         [status |-> "ok",
                          value  |-> [k \in DOMAIN sorted |-> sorted[k][2]]]
                 IN  With(PySort([k \in DOMAIN found.value |->
                                     <<found.value[k][2], found.value[k]>>], TRUE),
                          Items)
    IN  With(Connections(i, 1, log_ids, log_embeddings, similarity_threshold), Sorted)

\* build_memory_graph(logs, similarity_threshold): the cache after the call,
\* the status, and the graph, a dict from id to edge list.  A ValueError of
\* compute_similarity ends the call.
BuildMemoryGraph(cache, logs, similarity_threshold, m) ==
    LET Built(e) ==
            LET Graph(lists) ==
                    IF \E i \in DOMAIN lists : lists[i].status # "ok"
                    THEN [cache |-> e.cache, status |-> "ValueError", memory_graph |-> <<>>]
                    ELSE [cache  |-> e.cache,
                          status |-> "ok",
                          memory_graph |->
                              [log_id \in {e.log_ids[i] : i \in DOMAIN e.log_ids} |->
                                  lists[CHOOSE i \in DOMAIN e.log_ids :
                                            e.log_ids[i] = log_id].value]]
            IN  With([i \in DOMAIN e.log_ids |->
                         SortedConnections(i, e.log_ids, e.log_embeddings,
                                           similarity_threshold)], Graph)
    IN  With(EmbedLogs(cache, logs, 1, <<>>, <<>>, m), Built)

\* MemoryModel.build_memory_graph(logs, similarity_threshold); the entries
\* are only read (log.get), so the caller's list is left as it was.
build_memory_graph(logs, similarity_threshold) ==
    \E r \in {BuildMemoryGraph(embeddings_cache, logs, similarity_threshold,
                               ModelConfig)} :
        /\ embeddings_cache' = r.cache
        /\ first_since_clear' = HistoryAfter(first_since_clear, r.cache)
        /\ first_ever' = HistoryAfter(first_ever, r.cache)
        /\ call' = [op |-> "build_memory_graph", logs |-> logs,
                    similarity_threshold |-> similarity_threshold,
                    logs_after |-> logs]
        /\ ret' = [status |-> r.status, value |-> r.memory_graph]
        /\ UNCHANGED <<analyzer_vars, engine_vars, config_vars, api_up, ncalls>>

MaxGraphLogs == 3

\* The inputs of build_memory_graph: entries that share an id, entries
\* that share a content, an entry without id, texts whose fallback vector
\* is zero; the default threshold, and 0 and 1.
GraphLogs ==
    {[id |-> "a", content |-> TMeeting],
     [id |-> "b", content |-> TMeeting],
     [id |-> "a", content |-> TLunch],
     [id |-> "c", content |-> TMixed],
     [content |-> THello]}
GraphThresholds == {Zero, Rat(7, 10), One}
GraphTexts == {TMeeting}

InitGraph ==
    /\ Constructed
    /\ embedding_api_key \in BOOLEAN
    /\ embedding_dimension \in EmbeddingDimensions
    /\ embedding_provider = TRUE
    /\ api_up \in BOOLEAN

\* The graph has been built.
Built == call.op = "build_memory_graph"

GraphGetEmbedding == ~Built /\ \E text \in GraphTexts : get_embedding(text)

GraphApiFails == ~Built /\ ApiFails

GraphApiRecovers == ~Built /\ ApiRecovers

GraphBuild ==
    /\ ~Built
    /\ \E logs \in SeqsUpTo(GraphLogs, MaxGraphLogs),
          similarity_threshold \in GraphThresholds :
          build_memory_graph(logs, similarity_threshold)

NextGraph ==
    \/ GraphGetEmbedding
    \/ GraphApiFails
    \/ GraphApiRecovers
    \/ GraphBuild

\* One build_memory_graph call in any state the embedding cache can be in.
\* (The call changes nothing but the cache, and only as get_embedding calls
\* do, so a second call starts from a state the prelude reaches.)
SpecGraph == InitGraph /\ [][NextGraph]_vars

\* b is in the edge list the graph gives id a.
HasEdge(memory_graph, a, b) ==
    /\ a \in DOMAIN memory_graph
    /\ \E k \in DOMAIN memory_graph[a] : memory_graph[a][k][1] = b

\* The similarity of the cached embeddings of the contents of two entries
\* reaches the threshold.
SimilarContents(a, b, similarity_threshold) ==
    LET similarity ==
            ComputeSimilarity(embeddings_cache[Get(a, "content", TEmpty)],
                              embeddings_cache[Get(b, "content", TEmpty)])
    IN  similarity.status = "ok" /\ RGe(similarity.value, similarity_threshold)

\* The ids of the entries are pairwise distinct.
DistinctIds(logs) ==
    \A i, j \in DOMAIN logs : i # j => IdOf(logs[i]) # IdOf(logs[j])

\* C6 (as stated): in the graph build_memory_graph returns, for every two
\* entries a and b with different ids, b is in a's edge list iff the
\* similarity of their content embeddings is at least the threshold, and no
\* entry is in its own edge list.
C6_EdgeIffSimilar ==
    (Built /\ ret.status = "ok")
    => \A i, j \in DOMAIN call.logs :
          /\ IdOf(call.logs[i]) # IdOf(call.logs[j])
             => (HasEdge(ret.value, IdOf(call.logs[i]), IdOf(call.logs[j]))
                 <=> SimilarContents(call.logs[i], call.logs[j],
                                     call.similarity_threshold))
          /\ ~HasEdge(ret.value, IdOf(call.logs[i]), IdOf(call.logs[i]))

\* C6 (amended): when the ids of the entries are pairwise distinct, in the
\* graph build_memory_graph returns, for every two entries a and b, b is in
\* a's edge list iff the similarity of their content embeddings is at least
\* the threshold, and no entry is in its own edge list.
C6_EdgeIffSimilarDistinctIds ==
    (Built /\ ret.status = "ok" /\ DistinctIds(call.logs))
    => \A i, j \in DOMAIN call.logs :
          /\ i # j
             => (HasEdge(ret.value, IdOf(call.logs[i]), IdOf(call.logs[j]))
                 <=> SimilarContents(call.logs[i], call.logs[j],
                                     call.similarity_threshold))
          /\ ~HasEdge(ret.value, IdOf(call.logs[i]), IdOf(call.logs[i]))

\* A graph of three entries with distinct ids in which one pair is joined
\* by a similarity equal to the threshold and another pair is not joined.
C6_Witness ==
    /\ Built
    /\ ret.status = "ok"
    /\ DistinctIds(call.logs)
    /\ Len(call.logs) = 3
    /\ \E a, b, c \in DOMAIN ret.value :
          /\ \E k \in DOMAIN ret.value[a] :
                ret.value[a][k] = <<b, call.similarity_threshold>>
          /\ ~HasEdge(ret.value, a, c)
          /\ a # c

(***************************************************************************)
(* MemoryAnalyzer.generate_temporal_connections                            *)
(***************************************************************************)
\* The sort key x.get('start_time', ''): timestamps of one format compare
\* as strings the way their times compare, and '' sorts before all of them.
StartTimeKey(log) == Rat(Get(log, "start_time", -1), 1)

\* sorted(logs, key=lambda x: x.get('start_time', ''))
SortByStartTime(logs) ==
    LET Items(sorted) == [k \in DOMAIN sorted |-> sorted[k][2]]
    IN  With(PySort([k \in DOMAIN logs |-> <<StartTimeKey(logs[k]), logs[k]>>], FALSE),
             Items)

\* Lines 274-284: the backward scan from position j down to the first
\* entry, stopping at the first entry outside the window.
RECURSIVE LookBackward(_, _, _, _, _)
LookBackward(sorted_logs, i, j, time_window_days, now) ==
    IF j < 1 THEN <<>>
    ELSE IF Days(DateOf(sorted_logs[i], now) - DateOf(sorted_logs[j], now))
              <= time_window_days
    THEN <<IdOf(sorted_logs[j])>>
         \o LookBackward(sorted_logs, i, j - 1, time_window_days, now)
    ELSE <<>>

\* Lines 287-297: the forward scan from position j up to the last entry,
\* stopping at the first entry outside the window.
RECURSIVE LookForward(_, _, _, _, _)
LookForward(sorted_logs, i, j, time_window_days, now) ==
    IF j > Len(sorted_logs) THEN <<>>
    ELSE IF Days(DateOf(sorted_logs[j], now) - DateOf(sorted_logs[i], now))
              <= time_window_days
    THEN <<IdOf(sorted_logs[j])>>
         \o LookForward(sorted_logs, i, j + 1, time_window_days, now)
    ELSE <<>>

\* Lines 268-297: the loop over the sorted entries from position i on;
\* connections[log_id] is set anew at every entry that carries log_id.
RECURSIVE ConnectFrom(_, _, _, _, _)
ConnectFrom(connections, sorted_logs, i, time_window_days, now) ==
    IF i > Len(sorted_logs) THEN connections
    ELSE ConnectFrom(
             (IdOf(sorted_logs[i]) :>
                  (LookBackward(sorted_logs, i, i - 1, time_window_days, now)
                   \o LookForward(sorted_logs, i, i + 1, time_window_days, now)))
             @@ connections,
             sorted_logs, i + 1, time_window_days, now)

\* generate_temporal_connections(logs, time_window_days) called at time now
GenerateTemporalConnections(logs, time_window_days, now) ==
    IF logs = <<>> THEN <<>>
    ELSE LET Scan(sorted_logs) ==
                 ConnectFrom(<<>>, sorted_logs, 1, time_window_days, now)
         IN  With(SortByStartTime(logs), Scan)

\* MemoryAnalyzer.generate_temporal_connections(logs, time_window_days);
\* sorted() builds a new list and the entries are only read.
generate_temporal_connections(logs, time_window_days, now) ==
    /\ call' = [op |-> "generate_temporal_connections", logs |-> logs,
                time_window_days |-> time_window_days, now |-> now,
                logs_after |-> logs]
    /\ ret' = [status |-> "ok",
               value  |-> GenerateTemporalConnections(logs, time_window_days, now)]
    /\ UNCHANGED <<analyzer_vars, engine_vars, model_vars, config_vars, api_up, ncalls>>

MaxTemporalLogs == 3

\* The inputs of generate_temporal_connections.  Times are in hours: two
\* entries a day and some hours apart, entries days apart, an id carried by
\* two entries, an entry without start_time; the default window and
\* smaller ones.
TemporalLogs ==
    {[id |-> "a", start_time |-> 0],
     [id |-> "b", start_time |-> 30],
     [id |-> "c", start_time |-> 47],
     [id |-> "d", start_time |-> 120],
     [id |-> "a", start_time |-> 240],
     [id |-> "e"]}
TemporalWindows == {0, 1, 3}
TemporalNows == {RankNow, 200}

InitTemporal ==
    /\ Constructed
    /\ embedding_api_key = FALSE
    /\ embedding_dimension = 3
    /\ embedding_provider = TRUE
    /\ api_up = TRUE

NextTemporal ==
    /\ call.op = "none"
    /\ \E logs \in SeqsUpTo(TemporalLogs, MaxTemporalLogs),
          time_window_days \in TemporalWindows, now \in TemporalNows :
          generate_temporal_connections(logs, time_window_days, now)

\* generate_temporal_connections applied to every input: the method reads
\* nothing of the analyzer's state but the clock and changes nothing.
SpecTemporal == InitTemporal /\ [][NextTemporal]_vars

\* b is in the list the connections give id a.
Lists(connections, a, b) ==
    /\ a \in DOMAIN connections
    /\ \E k \in DOMAIN connections[a] : connections[a][k] = b

\* The whole days between the start times of two entries (an entry without
\* start_time counts as starting now) are at most the window.
WithinWindow(a, b, time_window_days, now) ==
    Days(Abs(DateOf(a, now) - DateOf(b, now))) <= time_window_days

\* C7: generate_temporal_connections connects exactly the pairs within the
\* window: for every two distinct entries a and b, b's id is in a's list iff
\* the absolute difference of their start times in days is at most the
\* window, which is what comparing all pairs gives.
C7_ConnectsExactlyWindow ==
    call.op = "generate_temporal_connections"
    => \A i, j \in DOMAIN call.logs :
          i # j
          => (Lists(ret.value, IdOf(call.logs[i]), IdOf(call.logs[j]))
              <=> WithinWindow(call.logs[i], call.logs[j],
                               call.time_window_days, call.now))

(***************************************************************************)
(* MemoryRecommendationEngine.get_recommendations                          *)
(***************************************************************************)
\* A Python dict whose order of keys matters: the keys in insertion order
\* and the mapping.
EmptyDict == [keys |-> <<>>, val |-> <<>>]

\* d[k] = v
DictSet(d, k, v) ==
    [keys |-> IF k \in DOMAIN d.val THEN d.keys ELSE Append(d.keys, k),
     val  |-> (k :> v) @@ d.val]

\* list(d.items())
DictItems(d) == [i \in DOMAIN d.keys |-> <<d.keys[i], d.val[d.keys[i]]>>]

\* "if log_id:" - the entry has an id and it is not the empty string.
Truthy(log_id) == log_id # None /\ log_id # ""

\* recommendations.sort(key=lambda x: x[1], reverse=True)
SortByScore(recommendations) ==
    LET Unkeyed(sorted) == [k \in DOMAIN sorted |-> sorted[k][2]]
    IN  With(PySort([k \in DOMAIN recommendations |->
                        <<recommendations[k][2], recommendations[k]>>], TRUE),
             Unkeyed)

\* _apply_user_preferences(preferences): the strategy weights and the
\* analyzer's relevance weights after the call; status "ValueError" when
\* update_relevance_weights raises.
ApplyUserPreferences(sw, rw, preferences) ==
    LET merged ==
            IF "strategy_weights" \in DOMAIN preferences
            THEN [k \in DOMAIN sw |->
                     IF k \in DOMAIN preferences["strategy_weights"]
                     THEN preferences["strategy_weights"][k] ELSE sw[k]]
            ELSE sw
        total_weight == SumOver(merged, DOMAIN merged)
        weights ==
            IF "strategy_weights" \in DOMAIN preferences /\ RGt(total_weight, Zero)
            THEN [k \in DOMAIN merged |-> RDiv(merged[k], total_weight)]
            ELSE merged
        updated ==
            IF "relevance_weights" \in DOMAIN preferences
            THEN UpdateWeights(rw, preferences["relevance_weights"])
            ELSE [weights |-> rw, result |-> None]
    IN  [strategy_weights  |-> weights,
         relevance_weights |-> updated.weights,
         status |-> IF updated.result = None THEN "ok" ELSE updated.result]

\* int(a / b) for b > 0: the quotient truncated toward zero.
TruncDiv(a, b) == IF a >= 0 THEN a \div b ELSE -((-a) \div b)

\* max(a, b) of two integers
IntMax(a, b) == IF b > a THEN b ELSE a

\* _get_logs_access_frequency(logs) at time now, from entry i on; rand[i]
\* is what np.random.randint(0, 3) returns at the i-th entry.
RECURSIVE LogsAccessFrequency(_, _, _, _, _)
LogsAccessFrequency(access_frequency, logs, i, now, rand) ==
    IF i > Len(logs) THEN access_frequency
    ELSE LET log_id   == IdOf(logs[i])
             days_old == Days(now - DateOf(logs[i], now))
             frequency == IntMax(0, 10 - TruncDiv(days_old, 7)) + rand[i]
         IN  LogsAccessFrequency(
                 IF Truthy(log_id)
                 THEN DictSet(access_frequency, log_id, frequency)
                 ELSE access_frequency,
                 logs, i + 1, now, rand)

\* Line 140: _get_logs_access_frequency parses the start_time of every
\* entry that has an id, and raises ValueError at the first it cannot parse.
AccessFrequencyRaises(logs) ==
    \E i \in DOMAIN logs : Truthy(IdOf(logs[i])) /\ ~Parseable(logs[i])

\* A faulty variant of _get_content_based_recommendations without the test
\* "if log_id:" of line 173: a pair for every related memory.
ContentRecommendationsUnfiltered(related_memories) ==
    [k \in DOMAIN related_memories |->
        <<IdOf(related_memories[k]), related_memories[k]["relevance"]>>]

\* _get_content_based_recommendations, lines 168-176: the (id, relevance)
\* pairs of the related memories that have an id.
ContentRecommendations(related_memories) ==
    LET HasId(memory) == Truthy(IdOf(memory))
        Pairs(kept) == [k \in DOMAIN kept |-> <<IdOf(kept[k]), kept[k]["relevance"]>>]
    IN  With(SelectSeq(related_memories, HasId), Pairs)

\* The references one pattern of one word finds in the query.
WordMatches(query, word, date, weight) ==
    [k \in 1..Cardinality({i \in DOMAIN query : Lower(query[i]) = word}) |->
        <<date, weight>>]

\* The references one pattern of two words finds in the query.
PairMatches(query, first, second, date, weight) ==
    [k \in 1..Cardinality({i \in 1..(Len(query) - 1) :
                              Lower(query[i]) = first /\ Lower(query[i + 1]) = second}) |->
        <<date, weight>>]

\* _extract_date_references(query, reference_date) for a query without
\* digits (the patterns of absolute dates need a number): the relative
\* patterns in their order, times in hours.
ExtractDateReferences(query, reference_date) ==
    WordMatches(query, "yesterday", reference_date - 24, One)
    \o WordMatches(query, "today", reference_date, One)
    \o WordMatches(query, "tomorrow", reference_date + 24, One)
    \o PairMatches(query, "last", "week", reference_date - 168, Rat(8, 10))
    \o PairMatches(query, "last", "month", reference_date - 720, Rat(7, 10))
    \o PairMatches(query, "next", "week", reference_date + 168, Rat(8, 10))
    \o PairMatches(query, "next", "month", reference_date + 720, Rat(7, 10))

\* Lines 211-222: the inner loop over the date references, from the j-th.
RECURSIVE ScoreAgainst(_, _, _, _, _)
ScoreAgainst(scores, log_id, log_time, date_references, j) ==
    IF j > Len(date_references) THEN scores
    ELSE LET days_diff  == Abs(Days(date_references[j][1] - log_time))
             time_score == RMul(ExpDecay7(days_diff), date_references[j][2])
         IN  ScoreAgainst(
                 DictSet(scores, log_id,
                         IF log_id \in DOMAIN scores.val
                         THEN PyMax(scores.val[log_id], time_score)
                         ELSE time_score),
                 log_id, log_time, date_references, j + 1)

\* Lines 203-222: the loop over the logs, from the i-th.
RECURSIVE TemporalScores(_, _, _, _, _)
TemporalScores(scores, logs, i, date_references, now) ==
    IF i > Len(logs) THEN scores
    ELSE TemporalScores(
             IF Truthy(IdOf(logs[i]))
             THEN ScoreAgainst(scores, IdOf(logs[i]), DateOf(logs[i], now),
                               date_references, 1)
             ELSE scores,
             logs, i + 1, date_references, now)

\* _get_temporal_recommendations(query, logs) at time now
TemporalRecommendations(query, logs, now) ==
    LET found == ExtractDateReferences(query, now)
        date_references == IF found = <<>> THEN <<<<now, One>>>> ELSE found
    IN  SortByScore(DictItems(TemporalScores(EmptyDict, logs, 1, date_references, now)))

\* Lines 350-355: the access frequencies divided by the largest of them.
RECURSIVE NormalizedFrequencies(_, _, _, _)
NormalizedFrequencies(behavior_scores, logs_access_frequency, max_frequency, k) ==
    IF k > Len(logs_access_frequency.keys) THEN behavior_scores
    ELSE LET log_id == logs_access_frequency.keys[k]
         IN  NormalizedFrequencies(
                 DictSet(behavior_scores, log_id,
                         IF max_frequency > 0
                         THEN Rat(logs_access_frequency.val[log_id], max_frequency)
                         ELSE Zero),
                 logs_access_frequency, max_frequency, k + 1)

\* datetime.hour of a time in hours
HourOf(time) == time % 24

\* hour_patterns[hour]: the ids of the entries written at that hour of the
\* day, in the order of the logs.
HourPattern(logs, hour, now) ==
    LET AtHour(log) == Truthy(IdOf(log)) /\ HourOf(DateOf(log, now)) = hour
        Ids(kept) == [k \in DOMAIN kept |-> IdOf(kept[k])]
    IN  With(SelectSeq(logs, AtHour), Ids)

\* Lines 376-382: 0.2 added for every listed id, from the k-th.
RECURSIVE Boost(_, _, _)
Boost(behavior_scores, log_ids, k) ==
    IF k > Len(log_ids) THEN behavior_scores
    ELSE Boost(DictSet(behavior_scores, log_ids[k],
                       IF log_ids[k] \in DOMAIN behavior_scores.val
                       THEN RAdd(behavior_scores.val[log_ids[k]], Rat(2, 10))
                       ELSE Rat(2, 10)),
               log_ids, k + 1)

\* _get_behavior_based_recommendations(query, logs, logs_access_frequency)
\* at time now
BehaviorRecommendations(logs, logs_access_frequency, now) ==
    LET base ==
            IF logs_access_frequency.keys # <<>>
            THEN NormalizedFrequencies(EmptyDict, logs_access_frequency,
                                       MaxValue(logs_access_frequency.val), 1)
            ELSE EmptyDict
        current_hour == HourOf(now)
        Capped(behavior_scores) ==
            SortByScore([k \in DOMAIN behavior_scores.keys |->
                            <<behavior_scores.keys[k],
                              PyMin(behavior_scores.val[behavior_scores.keys[k]], One)>>])
    IN  With(Boost(base,
                   HourPattern(logs, (current_hour + 23) % 24, now)
                   \o HourPattern(logs, current_hour, now)
                   \o HourPattern(logs, (current_hour + 1) % 24, now), 1),
             Capped)

\* Lines 71-73: combined_scores[log_id] = weight * score for each content
\* recommendation, from the k-th.
RECURSIVE SetScores(_, _, _, _)
SetScores(combined_scores, recommendations, weight, k) ==
    IF k > Len(recommendations) THEN combined_scores
    ELSE SetScores(DictSet(combined_scores, recommendations[k][1],
                           RMul(weight, recommendations[k][2])),
                   recommendations, weight, k + 1)

\* A faulty variant of the loops over the temporal and the behavior
\* recommendations that assigns where the code adds.
RECURSIVE AddScoresOverwriting(_, _, _, _)
AddScoresOverwriting(combined_scores, recommendations, weight, k) ==
    IF k > Len(recommendations) THEN combined_scores
    ELSE AddScoresOverwriting(DictSet(combined_scores, recommendations[k][1],
                                      RMul(weight, recommendations[k][2])),
                              recommendations, weight, k + 1)

\* Lines 75-85: weight * score added to combined_scores[log_id], or set
\* when the id is new, for each recommendation from the k-th.
RECURSIVE AddScores(_, _, _, _)
AddScores(combined_scores, recommendations, weight, k) ==
    IF k > Len(recommendations) THEN combined_scores
    ELSE LET log_id == recommendations[k][1]
             term   == RMul(weight, recommendations[k][2])
         IN  AddScores(DictSet(combined_scores, log_id,
                               IF log_id \in DOMAIN combined_scores.val
                               THEN RAdd(combined_scores.val[log_id], term)
                               ELSE term),
                       recommendations, weight, k + 1)

\* Lines 92-97: the first entry with the id, copied, with relevance_score.
ResultFor(logs, log_id, combined_scores) ==
    LET first == CHOOSE i \in DOMAIN logs :
                    /\ IdOf(logs[i]) = log_id
                    /\ \A j \in 1..(i - 1) : IdOf(logs[j]) # log_id
    IN  Annotate(logs[first], "relevance_score", combined_scores.val[log_id]).copy

\* The caller's list after lines 92-97 built the results of the ids in
\* sorted_results: the first entry of each of these ids was copied and the
\* copy annotated.
LogsAfterResults(logs, sorted_results, combined_scores) ==
    [i \in DOMAIN logs |->
        IF /\ \E k \in DOMAIN sorted_results : sorted_results[k][1] = IdOf(logs[i])
           /\ \A j \in 1..(i - 1) : IdOf(logs[j]) # IdOf(logs[i])
        THEN Annotate(logs[i], "relevance_score",
                      combined_scores.val[IdOf(logs[i])]).original
        ELSE logs[i]]

\* What one get_recommendations call does, as a record: the embedding cache
\* and the two weight maps after the call, the status, the list returned,
\* the combined scores the call computed, and the caller's list of entries
\* as the call leaves it.
RecommendationResult(cache, sw, rw, status, results, combined_scores, recommendations, logs) ==
    [cache |-> cache, strategy_weights |-> sw, relevance_weights |-> rw,
     status |-> status, results |-> results, combined_scores |-> combined_scores,
     recommendations |-> recommendations, logs |-> logs]

\* The lists of (log_id, score) pairs of the three strategies.
Recommendations(content_recs, temporal_recs, behavior_recs) ==
    [content |-> content_recs, temporal |-> temporal_recs, behavior |-> behavior_recs]

NoRecommendations == Recommendations(<<>>, <<>>, <<>>)

\* get_recommendations(query, logs, user_preferences, max_results) called
\* at time now; rand[i] is the random number drawn for the i-th entry; no
\* preferences is the empty dict.
GetRecommendations(cache, sw, rw, query, logs, user_preferences, max_results, now, rand, m) ==
    IF logs = <<>>
    THEN RecommendationResult(cache, sw, rw, "ok", <<>>, <<>>, NoRecommendations, logs)
    ELSE LET Applied(p) ==
                 LET Counted(logs_access_frequency) ==
                         LET Related(related) ==
                                 LET Scored(recs) ==
                                         LET Fused(combined_scores) ==
                                                 LET Top(sorted_results) ==
                                                         RecommendationResult(
                                                             related.cache, p.strategy_weights,
                                                             p.relevance_weights, "ok",
                                                             [k \in DOMAIN sorted_results |->
                                                                 ResultFor(related.logs,
                                                                           sorted_results[k][1],
                                                                           combined_scores)],
                                                             combined_scores.val, recs,
                                                             LogsAfterResults(
                                                                 related.logs, sorted_results,
                                                                 combined_scores))
                                                 IN  With(SliceTo(SortByScore(
                                                                      DictItems(combined_scores)),
                                                                  max_results), Top)
                                         IN  With(AddScores(
                                                      AddScores(
                                                          SetScores(EmptyDict, recs.content,
                                                                    p.strategy_weights["content_similarity"], 1),
                                                          recs.temporal,
                                                          p.strategy_weights["temporal_relevance"], 1),
                                                      recs.behavior,
                                                      p.strategy_weights["user_behavior"], 1),
                                                  Fused)
                                 IN  IF related.status # "ok"
                                     THEN RecommendationResult(
                                              related.cache, p.strategy_weights,
                                              p.relevance_weights, related.status, <<>>,
                                              <<>>, NoRecommendations, related.logs)
                                     ELSE With(Recommendations(
                                                   ContentRecommendations(related.results),
                                                   TemporalRecommendations(query, logs, now),
                                                   BehaviorRecommendations(
                                                       logs, logs_access_frequency, now)),
                                               Scored)
                         IN  With(FindRelatedMemories(cache, p.relevance_weights, logs, query,
                                                      logs_access_frequency.val, Len(logs),
                                                      now, m),
                                  Related)
                 IN  IF p.status # "ok"
                     THEN RecommendationResult(cache, p.strategy_weights,
                                               p.relevance_weights, p.status, <<>>, <<>>,
                                               NoRecommendations, logs)
                     ELSE IF AccessFrequencyRaises(logs)
                     THEN RecommendationResult(cache, p.strategy_weights,
                                               p.relevance_weights, "ValueError", <<>>,
                                               <<>>, NoRecommendations, logs)
                     ELSE With(LogsAccessFrequency(EmptyDict, logs, 1, now, rand), Counted)
         IN  With(IF DOMAIN user_preferences # {}
                  THEN ApplyUserPreferences(sw, rw, user_preferences)
                  ELSE [strategy_weights |-> sw, relevance_weights |-> rw, status |-> "ok"],
                  Applied)

\* Some get_recommendations call so far was given strategy weights (kept
\* in the record of the last call).
StrategyWeightsSupplied == call.op = "get_recommendations" /\ call.supplied

\* MemoryRecommendationEngine.get_recommendations(query, logs,
\* user_preferences, max_results)
get_recommendations(query, logs, user_preferences, max_results, now, rand) ==
    \E r \in {GetRecommendations(embeddings_cache, strategy_weights, relevance_weights,
                                 query, logs, user_preferences, max_results, now, rand,
                                 ModelConfig)} :
        /\ embeddings_cache' = r.cache
        /\ first_since_clear' = HistoryAfter(first_since_clear, r.cache)
        /\ first_ever' = HistoryAfter(first_ever, r.cache)
        /\ strategy_weights' = r.strategy_weights
        /\ relevance_weights' = r.relevance_weights
        /\ call' = [op |-> "get_recommendations", query |-> query, logs |-> logs,
                    user_preferences |-> user_preferences, max_results |-> max_results,
                    now |-> now, rand |-> rand, combined_scores |-> r.combined_scores,
                    recommendations |-> r.recommendations,
                    logs_after |-> r.logs,
                    strategy_weights_before |-> strategy_weights,
                    relevance_weights_before |-> relevance_weights,
                    supplied |-> StrategyWeightsSupplied
                                 \/ "strategy_weights" \in DOMAIN user_preferences]
        /\ ret' = [status |-> r.status, value |-> r.results]
        /\ ncalls' = ncalls + 1
        /\ UNCHANGED <<config_vars, api_up>>

MaxRecommendLogs == 2

\* The inputs of get_recommendations.  Times are in hours and the clock
\* reads RankNow: entries at the clock's hour of the day and away from it,
\* an id carried by two entries, an entry without id, a text whose fallback
\* vector is zero; queries with and without a date word; no preferences,
\* new strategy weights, relevance weights with an unknown key.
RecommendLogs ==
    {[id |-> "a", content |-> TMeeting, start_time |-> 24],
     [id |-> "b", content |-> THello, start_time |-> 30],
     [id |-> "a", content |-> TMixed, start_time |-> 0, importance |-> One],
     [content |-> TLunch, start_time |-> 47]}
RecommendQueries == {TMeeting, <<"lunch", "yesterday">>}
RecommendPreferences ==
    {<<>>,
     [strategy_weights |-> [content_similarity |-> One, user_behavior |-> One]],
     [strategy_weights |-> [temporal_relevance |-> Zero],
      relevance_weights |-> [bogus |-> One]]}
RecommendLimits == {1, 5}
RandInts == 0..2

InitRecommend ==
    /\ Constructed
    /\ embedding_api_key = FALSE
    /\ embedding_dimension = 3
    /\ embedding_provider \in BOOLEAN
    /\ api_up = TRUE

NextRecommend ==
    /\ call.op = "none"
    /\ \E logs \in SeqsUpTo(RecommendLogs, MaxRecommendLogs),
          query \in RecommendQueries,
          user_preferences \in RecommendPreferences,
          max_results \in RecommendLimits :
          \E rand \in [DOMAIN logs -> RandInts] :
              /\ \A i \in DOMAIN logs : ~Truthy(IdOf(logs[i])) => rand[i] = 0
              /\ get_recommendations(query, logs, user_preferences, max_results,
                                     RankNow, rand)

\* get_recommendations applied once to every input, on the engine the
\* application constructs and on one constructed without embedding
\* provider.
SpecRecommend == InitRecommend /\ [][NextRecommend]_vars

\* C3: get_recommendations returns at most max_results entries, ordered by
\* descending combined score; each returned entry carries all fields of the
\* input entry with that id plus relevance_score equal to the combined
\* score computed for that id.
C3_TopByCombinedScore ==
    (call.op = "get_recommendations" /\ ret.status = "ok")
    => /\ Len(ret.value) <= call.max_results
       /\ \A i \in 1..(Len(ret.value) - 1) :
             RGe(call.combined_scores[IdOf(ret.value[i])],
                 call.combined_scores[IdOf(ret.value[i + 1])])
       /\ \A i \in DOMAIN ret.value :
             /\ ret.value[i]["relevance_score"] = call.combined_scores[IdOf(ret.value[i])]
             /\ \E k \in DOMAIN call.logs :
                   /\ IdOf(call.logs[k]) = IdOf(ret.value[i])
                   /\ \A field \in DOMAIN call.logs[k] :
                         /\ field \in DOMAIN ret.value[i]
                         /\ ret.value[i][field] = call.logs[k][field]

(***************************************************************************)
(* The two similarity computations as operations                           *)
(***************************************************************************)
\* MemoryModel.compute_similarity(embed1, embed2)
compute_similarity(embed1, embed2) ==
    \E r \in {ComputeSimilarity(embed1, embed2)} :
        /\ call' = [op |-> "compute_similarity", embed1 |-> embed1, embed2 |-> embed2]
        /\ ret' = [status |-> r.status, value |-> r.value]
        /\ UNCHANGED <<analyzer_vars, engine_vars, model_vars, config_vars, api_up, ncalls>>

\* MemoryAnalyzer.compute_similarity_score(log_content, query_content)
compute_similarity_score(log_content, query_content) ==
    \E r \in {ComputeSimilarityScore(embeddings_cache, log_content, query_content,
                                     ModelConfig)} :
        /\ embeddings_cache' = r.cache
        /\ first_since_clear' = HistoryAfter(first_since_clear, r.cache)
        /\ first_ever' = HistoryAfter(first_ever, r.cache)
        /\ call' = [op |-> "compute_similarity_score", log_content |-> log_content,
                    query_content |-> query_content]
        /\ ret' = [status |-> "ok", value |-> r.value]
        /\ UNCHANGED <<analyzer_vars, engine_vars, config_vars, api_up, ncalls>>

\* The vectors compute_similarity is called with: of one and of three
\* components, zero and not.
SimilarityVectors ==
    {<<Zero>>, <<One>>, <<Zero, Zero, Zero>>, <<One, Zero, Zero>>,
     <<Rat(3, 5), Rat(4, 5), Zero>>, <<Rat(-3, 5), Rat(-4, 5), Zero>>}

InitSimilarity ==
    /\ Constructed
    /\ embedding_api_key \in BOOLEAN
    /\ embedding_dimension \in EmbeddingDimensions
    /\ embedding_provider \in BOOLEAN
    /\ api_up \in BOOLEAN

\* A similarity has been computed.
Compared == call.op \in {"compute_similarity", "compute_similarity_score"}

SimilarityGetEmbedding == ~Compared /\ \E text \in Texts : get_embedding(text)

SimilarityApiFails == ~Compared /\ ApiFails

SimilarityApiRecovers == ~Compared /\ ApiRecovers

SimilarityOfVectors ==
    /\ ~Compared
    /\ \E embed1, embed2 \in SimilarityVectors : compute_similarity(embed1, embed2)

SimilarityOfTexts ==
    /\ ~Compared
    /\ \E log_content, query_content \in Texts :
          compute_similarity_score(log_content, query_content)

NextSimilarity ==
    \/ SimilarityGetEmbedding
    \/ SimilarityApiFails
    \/ SimilarityApiRecovers
    \/ SimilarityOfVectors
    \/ SimilarityOfTexts

\* One similarity computation, of the model or of the analyzer, in any
\* state the embedding cache can be in.
SpecSimilarity == InitSimilarity /\ [][NextSimilarity]_vars

\* The analyzer took the embedding path: it has a provider, and the vectors
\* the provider returned for the two texts are the cached ones.
EmbeddingPath == call.op = "compute_similarity_score" /\ embedding_provider

\* C11: the similarity of two vectors of different lengths fails with a
\* shape-mismatch error and yields no score, in MemoryModel.compute_similarity
\* and in the embedding path of MemoryAnalyzer.compute_similarity_score.
C11_MismatchIsAnError ==
    /\ (call.op = "compute_similarity" /\ Len(call.embed1) # Len(call.embed2))
       => ret.status = "ValueError"
    /\ (EmbeddingPath
        /\ Len(embeddings_cache[call.log_content])
           # Len(embeddings_cache[call.query_content]))
       => ret.status = "ValueError"

\* Two vectors of one length of which at least one has zero norm.
Degenerate(embed1, embed2) ==
    /\ Len(embed1) = Len(embed2)
    /\ (Norm(embed1) = Zero \/ Norm(embed2) = Zero)

\* C12: for two vectors of equal length of which at least one has zero
\* norm the similarity is exactly 0.0, neither an error nor NaN, in
\* MemoryModel.compute_similarity and in the embedding path of
\* MemoryAnalyzer.compute_similarity_score.
C12_ZeroNormGivesZero ==
    /\ (call.op = "compute_similarity" /\ Degenerate(call.embed1, call.embed2))
       => (ret.status = "ok" /\ ret.value = Zero)
    /\ (EmbeddingPath
        /\ Degenerate(embeddings_cache[call.log_content],
                      embeddings_cache[call.query_content]))
       => (ret.status = "ok" /\ ret.value = Zero)

(***************************************************************************)
(* MemoryAnalyzer.compute_recency_score as an operation                    *)
(***************************************************************************)
\* MemoryAnalyzer.compute_recency_score(log_date, current_date)
compute_recency_score(log_date, current_date) ==
    /\ call' = [op |-> "compute_recency_score", log_date |-> log_date,
                current_date |-> current_date]
    /\ ret' = [status |-> "ok", value |-> ComputeRecencyScore(log_date, current_date)]
    /\ UNCHANGED <<analyzer_vars, engine_vars, model_vars, config_vars, api_up, ncalls>>

MaxDays == 4

\* The times of the recency calls, in hours: reference times at midnight
\* and within a day, entries at every hour up to MaxDays days before and
\* after the reference time.
RecencyNows == {120, 133}
RecencyOffsets == (-24 * MaxDays)..(24 * MaxDays)

InitRecency ==
    /\ Constructed
    /\ embedding_api_key = FALSE
    /\ embedding_dimension = 3
    /\ embedding_provider = TRUE
    /\ api_up = TRUE

NextRecency ==
    /\ call.op = "none"
    /\ \E current_date \in RecencyNows, d \in RecencyOffsets :
          compute_recency_score(current_date + d, current_date)

\* compute_recency_score applied to every input; the method reads and
\* changes nothing of the analyzer's state.
SpecRecency == InitRecency /\ [][NextRecency]_vars

\* C13: compute_recency_score is symmetric in time direction: an entry at
\* now + d and an entry at now - d get the same recency score.
C13_RecencySymmetric ==
    call.op = "compute_recency_score"
    => ret.value = ComputeRecencyScore(2 * call.current_date - call.log_date,
                                       call.current_date)

\* C14: compute_recency_score(t, t) is 1.0, and of two entry times the one
\* nearer to now gets the strictly greater score.
C14_RecencyStrictlyDecreasing ==
    call.op = "compute_recency_score"
    => /\ call.log_date = call.current_date => ret.value = One
       /\ \A d \in RecencyOffsets :
             Abs(call.current_date - call.log_date) < Abs(d)
             => RGt(ret.value,
                    ComputeRecencyScore(call.current_date + d, call.current_date))

(***************************************************************************)
(* Sequences of get_recommendations calls with user preferences            *)
(***************************************************************************)
MaxPreferenceCalls == 2

\* The preferences of the calls: none, strategy weights for any subset of
\* the three strategies, each 0 or 1, and a weight for an unknown strategy.
StrategyPreferences ==
    {<<>>, [strategy_weights |-> [bogus |-> One]]} \cup
    {[strategy_weights |-> w] :
        w \in UNION {[D -> WeightValues] : D \in SUBSET StrategyKeys}}
PreferenceLogs == {<<>>, <<[id |-> "a", content |-> TMeeting, start_time |-> 24]>>}

InitPreferences ==
    /\ Constructed
    /\ embedding_api_key = FALSE
    /\ embedding_dimension = 3
    /\ embedding_provider \in BOOLEAN
    /\ api_up = TRUE

NextPreferences ==
    /\ ncalls < MaxPreferenceCalls
    /\ \E logs \in PreferenceLogs, user_preferences \in StrategyPreferences :
          \E rand \in [DOMAIN logs -> RandInts] :
              get_recommendations(TMeeting, logs, user_preferences, 1, RankNow, rand)

\* get_recommendations called again and again with preferences of the
\* user.
SpecPreferences == InitPreferences /\ [][NextPreferences]_vars

\* C15: after any get_recommendations call whose preferences contain
\* strategy weights the three strategy weights sum to 1.0, and while no
\* strategy weights were ever supplied they are 0.5, 0.3 and 0.2.
C15_StrategyWeightsSumToOne ==
    /\ (call.op = "get_recommendations"
        /\ "strategy_weights" \in DOMAIN call.user_preferences)
       => SumOver(strategy_weights, StrategyKeys) = One
    /\ ~StrategyWeightsSupplied => strategy_weights = DefaultStrategyWeights

\* What a strategy can contribute to the combined score of an id: its
\* weight times a score it produced for the id, or 0 when it produced none.
Contributions(recommendations, log_id, weight) ==
    IF \E k \in DOMAIN recommendations : recommendations[k][1] = log_id
    THEN {RMul(weight, recommendations[k][2]) :
             k \in {n \in DOMAIN recommendations : recommendations[n][1] = log_id}}
    ELSE {Zero}

\* The ids a strategy produced a score for.
ScoredIds(recommendations) == {recommendations[k][1] : k \in DOMAIN recommendations}

\* C16: in get_recommendations the combined score of every id is the sum,
\* over the strategies that produced a score for the id, of the strategy's
\* weight times the strategy's score; a strategy without a score for the id
\* contributes 0.
C16_CombinedIsWeightedSum ==
    (call.op = "get_recommendations" /\ ret.status = "ok")
    => /\ DOMAIN call.combined_scores
             = ScoredIds(call.recommendations.content)
               \cup ScoredIds(call.recommendations.temporal)
               \cup ScoredIds(call.recommendations.behavior)
       /\ \A log_id \in DOMAIN call.combined_scores :
             \E c \in Contributions(call.recommendations.content, log_id,
                                    strategy_weights["content_similarity"]),
                t \in Contributions(call.recommendations.temporal, log_id,
                                    strategy_weights["temporal_relevance"]),
                b \in Contributions(call.recommendations.behavior, log_id,
                                    strategy_weights["user_behavior"]) :
                call.combined_scores[log_id] = RAdd(RAdd(c, t), b)

\* A call that scored two ids, each by all three strategies with weights
\* that are not zero, to a combined score larger than any single term.
C16_Witness ==
    /\ call.op = "get_recommendations"
    /\ ret.status = "ok"
    /\ Cardinality(DOMAIN call.combined_scores) = 2
    /\ \A k \in StrategyKeys : RGt(strategy_weights[k], Zero)
    /\ \A log_id \in DOMAIN call.combined_scores :
          /\ log_id \in ScoredIds(call.recommendations.content)
          /\ log_id \in ScoredIds(call.recommendations.temporal)
          /\ log_id \in ScoredIds(call.recommendations.behavior)
          /\ \A t \in Contributions(call.recommendations.temporal, log_id,
                                    strategy_weights["temporal_relevance"]) :
                RGt(t, Zero) /\ RGt(call.combined_scores[log_id], t)

(***************************************************************************)
(* get_recommendations for the query "meeting" with max_results = 1        *)
(***************************************************************************)
\* The clock, in hours: ten days after hour 0.
MeetingNow == 240

\* Start times up to ten days before the clock, texts without the word
\* "meeting" for the other entry.
MeetingTimes == {12, 132, 239}
OtherTexts == {TLunch, THello}

\* Two entries with distinct ids, exactly one of which contains the word
\* "meeting", in either order.
MeetingLogs ==
    UNION {{<<[id |-> "a", content |-> TMeeting, start_time |-> ta],
              [id |-> "b", content |-> other, start_time |-> tb]>>,
            <<[id |-> "b", content |-> other, start_time |-> tb],
              [id |-> "a", content |-> TMeeting, start_time |-> ta]>>} :
           <<ta, tb, other>> \in MeetingTimes \X MeetingTimes \X OtherTexts}

InitMeeting ==
    /\ Constructed
    /\ embedding_api_key = FALSE
    /\ embedding_dimension = 3
    /\ embedding_provider \in BOOLEAN
    /\ api_up = TRUE

NextMeeting ==
    /\ call.op = "none"
    /\ \E logs \in MeetingLogs :
          \E rand \in [DOMAIN logs -> RandInts] :
              get_recommendations(TMeeting, logs, <<>>, 1, MeetingNow, rand)

\* get_recommendations("meeting", logs, max_results=1) applied once on a
\* fresh engine.
SpecMeeting == InitMeeting /\ [][NextMeeting]_vars

\* the entry contains the word "meeting"
ContainsMeeting(log) == \E i \in DOMAIN log.content : Lower(log.content[i]) = "meeting"

\* C17: get_recommendations with query "meeting" and max_results = 1 over
\* entries of which exactly one contains the word "meeting" returns that
\* entry alone, with a combined score that is not zero, whatever the start
\* times and the access frequencies.
C17_MeetingEntryReturned ==
    (/\ call.op = "get_recommendations"
     /\ call.query = TMeeting
     /\ call.max_results = 1
     /\ Cardinality({i \in DOMAIN call.logs : ContainsMeeting(call.logs[i])}) = 1)
    => /\ ret.status = "ok"
       /\ Len(ret.value) = 1
       /\ ContainsMeeting(ret.value[1])
       /\ ret.value[1].relevance_score # Zero

(***************************************************************************)
(* MemoryAnalyzer.identify_patterns                                        *)
(***************************************************************************)
\* Lines 223-224: the part of the day of an hour
TimeCategory(hour) ==
    IF 5 <= hour /\ hour < 12 THEN "morning"
    ELSE IF 12 <= hour /\ hour < 17 THEN "afternoon"
    ELSE IF 17 <= hour /\ hour < 21 THEN "evening"
    ELSE "night"

\* log_date.strftime('%A'); hour 0 of the model's clock starts a Monday.
Weekdays ==
    <<"Monday", "Tuesday", "Wednesday", "Thursday", "Friday", "Saturday", "Sunday">>
WeekdayOf(time) == Weekdays[((time \div 24) % 7) + 1]

\* extract_entities(log_content) for the contents of the model: the name
\* pattern needs two capitalised words in a row, the location pattern a
\* capitalised word after "at", "in" or "to", the project pattern a quoted
\* name; no text of the model has any of these, so re.findall finds nothing
\* three times and list(set([])) is returned.
ExtractEntities(log_content) == <<>>

\* Lines 217-233 and 240-245: the share, in percent, of the entries that
\* fall in each class, as a dict from the classes that occur.
Percentages(classes) ==
    [c \in {classes[i] : i \in DOMAIN classes} |->
        Rat(Cardinality({i \in DOMAIN classes : classes[i] = c}) * 100, Len(classes))]

\* patterns['entity_frequency']: in how many entries each entity occurs.
EntityFrequency(logs) ==
    LET Entities(log) == ExtractEntities(Get(log, "content", TEmpty))
        Mentions(log, entity) == \E k \in DOMAIN Entities(log) : Entities(log)[k] = entity
    IN  [entity \in UNION {{Entities(logs[i])[k] : k \in DOMAIN Entities(logs[i])} :
                           i \in DOMAIN logs} |->
            Cardinality({i \in DOMAIN logs : Mentions(logs[i], entity)})]

\* identify_patterns(logs) called at time now
IdentifyPatterns(logs, now) ==
    IF logs = <<>> THEN <<>>
    ELSE [time_of_day      |->
             Percentages([i \in DOMAIN logs |->
                             TimeCategory(HourOf(DateOf(logs[i], now)))]),
          weekday_activity |->
             Percentages([i \in DOMAIN logs |-> WeekdayOf(DateOf(logs[i], now))]),
          recurring_topics |-> <<>>,
          entity_frequency |-> EntityFrequency(logs)]

(***************************************************************************)
(* MemoryRecommendationEngine.generate_memory_insights                     *)
(***************************************************************************)
\* The keys of a dict in their order after the keys of the sequence were
\* assigned one after the other, from the i-th on.
RECURSIVE InsertionOrder(_, _, _)
InsertionOrder(keys, assigned, i) ==
    IF i > Len(assigned) THEN keys
    ELSE InsertionOrder(IF \E k \in DOMAIN keys : keys[k] = assigned[i]
                        THEN keys ELSE Append(keys, assigned[i]),
                        assigned, i + 1)

\* sorted(items, key=count, reverse=True) of <<item, count>> pairs
SortByCount(items) ==
    LET Items(sorted) == [k \in DOMAIN sorted |-> sorted[k][2]]
    IN  With(PySort([k \in DOMAIN items |-> <<Rat(items[k][2], 1), items[k]>>], TRUE),
             Items)

\* Lines 476-479: the stop words
StopWords ==
    {"and", "the", "to", "of", "in", "for", "with", "on", "at", "from", "by",
     "about", "as", "is", "was", "were", "be", "been", "being", "have", "has",
     "had", "do", "does", "did", "but", "an", "this", "that", "these", "those",
     "am", "are", "will", "would", "should", "can", "could", "may", "might",
     "must", "shall"}

\* Lines 474-483: the words of three letters or more of all contents, in
\* order, without the stop words.
RECURSIVE FilteredWords(_, _)
FilteredWords(logs, i) ==
    IF i > Len(logs) THEN <<>>
    ELSE LET Kept(word) == Len(word) >= 3 /\ word \notin StopWords
         IN  SelectSeq(LowerWords(Get(logs[i], "content", TEmpty)), Kept)
             \o FilteredWords(logs, i + 1)

\* Lines 486-487: Counter(filtered_words).most_common(30)
MostCommonWords(filtered_words) ==
    LET Counted(words) ==
            SliceTo(SortByCount([k \in DOMAIN words |->
                                    <<words[k], CountWord(filtered_words, words[k])>>]),
                    30)
    IN  With(InsertionOrder(<<>>, filtered_words, 1), Counted)

\* Lines 491-503: the clusters of the words from the k-th on
RECURSIVE TopicClusters(_, _, _)
TopicClusters(logs, most_common_words, k) ==
    IF k > Len(most_common_words) THEN <<>>
    ELSE LET word == most_common_words[k][1]
             Mentions(log) ==
                 \E i \in DOMAIN Get(log, "content", TEmpty) :
                     Lower(Get(log, "content", TEmpty)[i]) = word
             Ids(kept) == [n \in DOMAIN kept |-> IdOf(kept[n])]
             cluster_logs == With(SelectSeq(logs, Mentions), Ids)
         IN  (IF most_common_words[k][2] >= 3 /\ Len(cluster_logs) >= 2
              THEN <<[topic |-> word, log_count |-> Len(cluster_logs),
                      log_ids |-> SliceTo(cluster_logs, 10)]>>
              ELSE <<>>)
             \o TopicClusters(logs, most_common_words, k + 1)

\* _identify_topic_clusters(logs)
IdentifyTopicClusters(logs) ==
    TopicClusters(logs, MostCommonWords(FilteredWords(logs, 1)), 1)

\* sum(len(connections) for connections in d.values()) of a dict of lists
ConnectionCount(connections) ==
    LET ids == DOMAIN connections
        RECURSIVE Total(_)
        Total(S) == IF S = {} THEN 0
                    ELSE LET log_id == CHOOSE x \in S : TRUE
                         IN  Len(connections[log_id]) + Total(S \ {log_id})
    IN  Total(ids)

\* _find_highly_connected_logs(temporal_connections, semantic_connections);
\* the dicts are given with their keys in insertion order.
FindHighlyConnectedLogs(temporal_keys, temporal_connections, semantic_keys, semantic_connections) ==
    LET Count(connections, log_id) ==
            IF log_id \in DOMAIN connections THEN Len(connections[log_id]) ELSE 0
        Info(log_id) ==
            [temporal |-> Count(temporal_connections, log_id),
             semantic |-> Count(semantic_connections, log_id),
             total    |-> Count(temporal_connections, log_id)
                          + Count(semantic_connections, log_id)]
        Listed(log_ids) ==
            LET Entries(sorted_logs) ==
                    [k \in DOMAIN sorted_logs |->
                        [log_id |-> sorted_logs[k][1], connections |-> Info(sorted_logs[k][1])]]
            IN  With(SliceTo(SortByCount([k \in DOMAIN log_ids |->
                                             <<log_ids[k], Info(log_ids[k]).total>>]), 10),
                     Entries)
    IN  With(InsertionOrder(<<>>, temporal_keys \o semantic_keys, 1), Listed)

\* list(d.items()) of a dict given as a function, in some order of its keys
RECURSIVE ItemsOf(_)
ItemsOf(d) ==
    IF DOMAIN d = {} THEN <<>>
    ELSE LET key == CHOOSE x \in DOMAIN d : TRUE
         IN  <<<<key, d[key]>>>> \o ItemsOf([x \in DOMAIN d \ {key} |-> d[x]])

\* Lines 427-429 and 449: the ten most frequent entities
TopEntities(entity_frequencies) ==
    LET Listed(top_entities) ==
            [k \in DOMAIN top_entities |->
                [entity |-> top_entities[k][1], frequency |-> top_entities[k][2]]]
    IN  With(SliceTo(SortByCount(ItemsOf(entity_frequencies)), 10), Listed)

\* log.get('id') of every entry, in order
IdsOf(logs) == [k \in DOMAIN logs |-> IdOf(logs[k])]

\* What generate_memory_insights hands back: the cache it leaves, whether it
\* returned or raised, the dict returned, and how building the semantic
\* graph ended ("none" when the call returned before building it).
InsightsResult(cache, status, insights, graph) ==
    [cache |-> cache, status |-> status, insights |-> insights, graph |-> graph]

\* Lines 436-457: the insights dict
Insights(recent_logs, timeframe_days, now, patterns, temporal_connections, semantic_keys, semantic_connections) ==
    [timeframe |->
        [start_date |-> now - 24 * timeframe_days,
         end_date   |-> now,
         total_logs |-> Len(recent_logs)],
     activity_patterns |->
        [time_of_day      |-> Get(patterns, "time_of_day", <<>>),
         weekday_activity |-> Get(patterns, "weekday_activity", <<>>)],
     content_insights |->
        [top_entities      |-> TopEntities(Get(patterns, "entity_frequency", <<>>)),
         semantic_clusters |-> IdentifyTopicClusters(recent_logs)],
     connection_insights |->
        [temporal_connection_count |-> ConnectionCount(temporal_connections),
         semantic_connection_count |-> ConnectionCount(semantic_connections),
         highly_connected_logs |->
            FindHighlyConnectedLogs(IdsOf(SortByStartTime(recent_logs)),
                                    temporal_connections,
                                    semantic_keys, semantic_connections)]]

\* A faulty variant that lets the failure of build_memory_graph end the
\* call.
GenerateMemoryInsightsUncaught(cache, logs, timeframe_days, now, m) ==
    IF logs = <<>> THEN InsightsResult(cache, "ok", <<>>, "none")
    ELSE LET Recent(log) == DateOf(log, now) >= now - 24 * timeframe_days
             Report(recent_logs) ==
                 IF recent_logs = <<>>
                 THEN InsightsResult(cache, "ok",
                          [message |-> "No logs found in the specified timeframe"],
                          "none")
                 ELSE LET Graphed(g) ==
                              IF g.status = "ok"
                              THEN InsightsResult(g.cache, "ok",
                                       Insights(recent_logs, timeframe_days, now,
                                                IdentifyPatterns(recent_logs, now),
                                                GenerateTemporalConnections(recent_logs, 3, now),
                                                IdsOf(recent_logs), g.memory_graph),
                                       g.status)
                              ELSE InsightsResult(g.cache, g.status, <<>>, g.status)
                      IN  With(BuildMemoryGraph(cache, recent_logs, Rat(6, 10), m), Graphed)
         IN  With(SelectSeq(logs, Recent), Report)

\* generate_memory_insights(logs, timeframe_days) called at time now
GenerateMemoryInsights(cache, logs, timeframe_days, now, m) ==
    IF logs = <<>> THEN InsightsResult(cache, "ok", <<>>, "none")
    ELSE LET Recent(log) == DateOf(log, now) >= now - 24 * timeframe_days
             Report(recent_logs) ==
                 IF recent_logs = <<>>
                 THEN InsightsResult(cache, "ok",
                          [message |-> "No logs found in the specified timeframe"],
                          "none")
                 ELSE LET Graphed(g) ==
                              InsightsResult(g.cache, "ok",
                                  Insights(recent_logs, timeframe_days, now,
                                           IdentifyPatterns(recent_logs, now),
                                           GenerateTemporalConnections(recent_logs, 3, now),
                                           IF g.status = "ok" THEN IdsOf(recent_logs) ELSE <<>>,
                                           IF g.status = "ok" THEN g.memory_graph ELSE <<>>),
                                  g.status)
                      IN  With(BuildMemoryGraph(cache, recent_logs, Rat(6, 10), m), Graphed)
         IN  With(SelectSeq(logs, Recent), Report)

\* MemoryRecommendationEngine.generate_memory_insights(logs, timeframe_days);
\* recent_logs is a new list and the entries are only read.
generate_memory_insights(logs, timeframe_days, now) ==
    \E r \in {GenerateMemoryInsights(embeddings_cache, logs, timeframe_days, now,
                                     ModelConfig)} :
        /\ embeddings_cache' = r.cache
        /\ first_since_clear' = HistoryAfter(first_since_clear, r.cache)
        /\ first_ever' = HistoryAfter(first_ever, r.cache)
        /\ call' = [op |-> "generate_memory_insights", logs |-> logs,
                    timeframe_days |-> timeframe_days, now |-> now,
                    graph |-> r.graph, logs_after |-> logs]
        /\ ret' = [status |-> r.status, value |-> r.insights]
        /\ ncalls' = ncalls + 1
        /\ UNCHANGED <<analyzer_vars, engine_vars, config_vars, api_up>>

MaxInsightLogs == 2

\* The inputs of generate_memory_insights.  The clock reads RankNow: entries
\* inside and outside of the shorter timeframes, one without start_time,
\* two that share a word often enough for a topic cluster.
InsightLogs ==
    {[id |-> "a", content |-> TMeeting, start_time |-> 24],
     [id |-> "b", content |-> TLunch, start_time |-> 30],
     [id |-> "c", content |-> TMixed, start_time |-> 47],
     [id |-> "d", content |-> THello]}
InsightTimeframes == {0, 1, 30}
InsightTexts == {TMeeting}

InitInsights ==
    /\ Constructed
    /\ embedding_api_key \in BOOLEAN
    /\ embedding_dimension \in EmbeddingDimensions
    /\ embedding_provider = TRUE
    /\ api_up \in BOOLEAN

\* generate_memory_insights has been called
Reported == call.op = "generate_memory_insights"

InsightsGetEmbedding == ~Reported /\ \E text \in InsightTexts : get_embedding(text)

InsightsApiFails == ~Reported /\ ApiFails

InsightsApiRecovers == ~Reported /\ ApiRecovers

InsightsGenerate ==
    /\ ~Reported
    /\ \E logs \in SeqsUpTo(InsightLogs, MaxInsightLogs),
          timeframe_days \in InsightTimeframes :
          generate_memory_insights(logs, timeframe_days, RankNow)

NextInsights ==
    \/ InsightsGetEmbedding
    \/ InsightsApiFails
    \/ InsightsApiRecovers
    \/ InsightsGenerate

\* One call of generate_memory_insights on an engine whose memory model
\* may have embedded a text before, while the embedding service comes and
\* goes.
SpecInsights == InitInsights /\ [][NextInsights]_vars

\* C18: generate_memory_insights called with an empty entry list returns,
\* without raising, a result that states that there are no entries, for
\* every timeframe.
C18_EmptyListIsReported ==
    (call.op = "generate_memory_insights" /\ call.logs = <<>>)
    => /\ ret.status = "ok"
       /\ "message" \in DOMAIN ret.value

\* The entries of the last generate_memory_insights call inside its
\* timeframe.
RecentLogs ==
    LET Recent(log) == DateOf(log, call.now) >= call.now - 24 * call.timeframe_days
    IN  SelectSeq(call.logs, Recent)

\* building the semantic graph failed inside the last call
GraphFailed ==
    call.op = "generate_memory_insights" /\ call.graph \notin {"none", "ok"}

\* C19: when building the semantic graph fails inside
\* generate_memory_insights the call still returns an insight report, with
\* semantic connection count 0 and with the temporal connection count, the
\* activity patterns and the highly connected entries computed from the
\* temporal connections alone.
C19_GraphFailureDegrades ==
    GraphFailed
    => LET temporal_connections == GenerateTemporalConnections(RecentLogs, 3, call.now)
           patterns == IdentifyPatterns(RecentLogs, call.now)
           connection_insights == ret.value.connection_insights
           highly_connected_logs == connection_insights.highly_connected_logs
       IN  /\ ret.status = "ok"
           /\ connection_insights.semantic_connection_count = 0
           /\ connection_insights.temporal_connection_count
                 = ConnectionCount(temporal_connections)
           /\ ret.value.activity_patterns
                 = [time_of_day |-> patterns.time_of_day,
                    weekday_activity |-> patterns.weekday_activity]
           /\ {highly_connected_logs[k].log_id : k \in DOMAIN highly_connected_logs}
                 = DOMAIN temporal_connections
           /\ \A k \in DOMAIN highly_connected_logs :
                 /\ highly_connected_logs[k].connections
                       = [temporal |-> Len(temporal_connections[highly_connected_logs[k].log_id]),
                          semantic |-> 0,
                          total    |-> Len(temporal_connections[highly_connected_logs[k].log_id])]
                 /\ \A n \in DOMAIN highly_connected_logs :
                       k < n => highly_connected_logs[k].connections.total
                                   >= highly_connected_logs[n].connections.total
                 /\ \A n \in DOMAIN highly_connected_logs :
                       k # n => highly_connected_logs[k].log_id # highly_connected_logs[n].log_id

\* A call in which compute_similarity raised on vectors of two lengths while
\* the entries were connected in time.
C19_Witness ==
    /\ GraphFailed
    /\ ret.status = "ok"
    /\ Len(RecentLogs) = 2
    /\ ret.value.connection_insights.temporal_connection_count = 2

(***************************************************************************)
(* Ranking entries of which one has a start_time that cannot be parsed     *)
(***************************************************************************)
MaxFailingLogs == 2

\* Entries with a start_time in ISO format and entries, with and without
\* id, whose start_time is not; the clock reads RankNow.
FailingLogs ==
    {[id |-> "a", content |-> TMeeting, start_time |-> 24],
     [id |-> "b", content |-> TLunch, start_time |-> 30],
     [id |-> "c", content |-> TMeeting, start_time |-> BadTime],
     [content |-> TLunch, start_time |-> BadTime]}
FailingQueries == {TMeeting, TLunch}
FailingFrequencies == {<<>>, [a |-> 2, c |-> 1]}
FailingLimits == {1, 5}

InitFailing ==
    /\ Constructed
    /\ embedding_api_key = FALSE
    /\ embedding_dimension = 3
    /\ embedding_provider \in BOOLEAN
    /\ api_up = TRUE

FailingFindRelated ==
    /\ call.op = "none"
    /\ \E logs \in SeqsUpTo(FailingLogs, MaxFailingLogs),
          query \in FailingQueries,
          logs_access_frequency \in FailingFrequencies,
          max_results \in FailingLimits :
          find_related_memories(logs, query, logs_access_frequency, max_results, RankNow)

FailingRecommend ==
    /\ call.op = "none"
    /\ \E logs \in SeqsUpTo(FailingLogs, MaxFailingLogs),
          query \in FailingQueries,
          max_results \in FailingLimits :
          \E rand \in [DOMAIN logs -> RandInts] :
              /\ \A i \in DOMAIN logs : ~Truthy(IdOf(logs[i])) => rand[i] = 0
              /\ get_recommendations(query, logs, <<>>, max_results, RankNow, rand)

NextFailing ==
    \/ FailingFindRelated
    \/ FailingRecommend

\* find_related_memories or get_recommendations applied once to entries
\* some of which may carry a start_time that is not a timestamp.
SpecFailing == InitFailing /\ [][NextFailing]_vars

\* C20: in find_related_memories and get_recommendations, when scoring
\* fails for one entry (its start_time cannot be parsed) the call does not
\* fail: the other entries are still scored, ranked and returned, and the
\* failing entry contributes a score of zero.
C20_OneBadEntryDoesNotAbort ==
    (/\ call.op \in {"find_related_memories", "get_recommendations"}
     /\ Cardinality({i \in DOMAIN call.logs : ~Parseable(call.logs[i])}) = 1
     /\ \E i \in DOMAIN call.logs : Parseable(call.logs[i]))
    => /\ ret.status = "ok"
       /\ \A i \in DOMAIN call.logs :
             (Parseable(call.logs[i]) /\ call.max_results >= Len(call.logs))
             => \E k \in DOMAIN ret.value : IdOf(ret.value[k]) = IdOf(call.logs[i])
       /\ \A k \in DOMAIN ret.value :
             (\E i \in DOMAIN call.logs :
                 ~Parseable(call.logs[i]) /\ IdOf(call.logs[i]) = IdOf(ret.value[k]))
             => Get(ret.value[k], "relevance",
                    Get(ret.value[k], "relevance_score", Zero)) = Zero

\* The cached embeddings of the contents of two entries have different
\* lengths.
Mismatched(a, b) ==
    Len(embeddings_cache[Get(a, "content", TEmpty)])
        # Len(embeddings_cache[Get(b, "content", TEmpty)])

\* C21: in build_memory_graph, when the embeddings of one pair of entries
\* have different dimensions only that pair is skipped: the call does not
\* fail and the edges between all other pairs are produced as if the
\* mismatched pair were absent.
C21_MismatchedPairSkipped ==
    (/\ Built
     /\ DistinctIds(call.logs)
     /\ \E i, j \in DOMAIN call.logs : Mismatched(call.logs[i], call.logs[j]))
    => /\ ret.status = "ok"
       /\ \A i, j \in DOMAIN call.logs :
             (i # j /\ ~Mismatched(call.logs[i], call.logs[j]))
             => (HasEdge(ret.value, IdOf(call.logs[i]), IdOf(call.logs[j]))
                 <=> SimilarContents(call.logs[i], call.logs[j],
                                     call.similarity_threshold))

\* C22: an externally sourced vector whose length differs from the
\* configured embedding dimension is a hard error: get_embedding neither
\* returns it nor caches it nor resizes it; zero-padding or truncation is
\* applied to fallback vectors only.
C22_ExternalMismatchIsError ==
    /\ (/\ call.op = "get_embedding"
        /\ call.api = "ok"
        /\ Len(OpenAIEmbedding(call.text)) # embedding_dimension)
       => /\ ret.status # "ok"
          /\ call.text \notin DOMAIN embeddings_cache
    /\ (call.op = "get_embedding" /\ call.miss /\ call.api # "ok")
       => /\ ret.value = SimpleEmbedding(call.text, embedding_dimension)
          /\ Len(ret.value) = embedding_dimension

(***************************************************************************)
(* The entries handed to the batch operations                              *)
(***************************************************************************)
MaxFrameLogs == 2

InitFrame ==
    /\ Constructed
    /\ embedding_api_key = FALSE
    /\ embedding_dimension = 3
    /\ embedding_provider \in BOOLEAN
    /\ api_up = TRUE

FrameFindRelated ==
    /\ call.op = "none"
    /\ \E logs \in SeqsUpTo(RecommendLogs, MaxFrameLogs),
          logs_access_frequency \in FailingFrequencies,
          max_results \in RecommendLimits :
          find_related_memories(logs, TMeeting, logs_access_frequency, max_results, RankNow)

FrameRecommend ==
    /\ call.op = "none"
    /\ \E logs \in SeqsUpTo(RecommendLogs, MaxFrameLogs),
          max_results \in RecommendLimits :
          \E rand \in [DOMAIN logs -> RandInts] :
              /\ \A i \in DOMAIN logs : ~Truthy(IdOf(logs[i])) => rand[i] = 0
              /\ get_recommendations(TMeeting, logs, <<>>, max_results, RankNow, rand)

FrameBuildGraph ==
    /\ call.op = "none"
    /\ \E logs \in SeqsUpTo(RecommendLogs, MaxFrameLogs) :
          build_memory_graph(logs, Rat(7, 10))

FrameTemporalConnections ==
    /\ call.op = "none"
    /\ \E logs \in SeqsUpTo(RecommendLogs, MaxFrameLogs) :
          generate_temporal_connections(logs, 3, RankNow)

FrameInsights ==
    /\ call.op = "none"
    /\ \E logs \in SeqsUpTo(RecommendLogs, MaxFrameLogs) :
          generate_memory_insights(logs, 30, RankNow)

NextFrame ==
    \/ FrameFindRelated
    \/ FrameRecommend
    \/ FrameBuildGraph
    \/ FrameTemporalConnections
    \/ FrameInsights

\* One call of one of the operations that take a list of entries.
SpecFrame == InitFrame /\ [][NextFrame]_vars

\* the operations that take a list of entries
BatchOperations ==
    {"find_related_memories", "get_recommendations", "build_memory_graph",
     "generate_temporal_connections", "generate_memory_insights"}

\* C23: after a call of find_related_memories, get_recommendations,
\* build_memory_graph, generate_temporal_connections or
\* generate_memory_insights every entry of the input list has exactly the
\* fields and values it had before; the annotations relevance and
\* relevance_score exist only on the returned copies.
C23_InputsNotMutated ==
    call.op \in BatchOperations
    => /\ call.logs_after = call.logs
       /\ \A i \in DOMAIN call.logs_after :
             DOMAIN call.logs_after[i] \cap {"relevance", "relevance_score"} = {}
       /\ (call.op = "find_related_memories" /\ ret.status = "ok")
          => \A k \in DOMAIN ret.value : "relevance" \in DOMAIN ret.value[k]
       /\ (call.op = "get_recommendations" /\ ret.status = "ok")
          => \A k \in DOMAIN ret.value : "relevance_score" \in DOMAIN ret.value[k]

\* A get_recommendations call that returned annotated copies of both of
\* its two entries.
C23_Witness ==
    /\ call.op = "get_recommendations"
    /\ ret.status = "ok"
    /\ Len(call.logs) = 2
    /\ Len(ret.value) = 2
    /\ \A k \in DOMAIN ret.value : "relevance_score" \in DOMAIN ret.value[k]

(***************************************************************************)
(* MemoryModel.get_attention_weights and get_lightweight_attention         *)
(***************************************************************************)
\* a - b
RSub(a, b) == RAdd(a, RMul(Rat(-1, 1), b))

\* Lines 308-312 and 370-373: every value divided by the total when the
\* total is positive.
NormalizeScores(scores) ==
    LET Divided(total) ==
            IF RGt(total, Zero)
            THEN [k \in DOMAIN scores |-> RDiv(scores[k], total)]
            ELSE scores
    IN  With(SumOver(scores, DOMAIN scores), Divided)

\* Lines 291-305: the loop over the logs from the i-th on; a ValueError of
\* compute_similarity or of datetime.fromisoformat ends the call.
RECURSIVE AttentionScores(_, _, _, _, _, _)
AttentionScores(query_embedding, log_embeddings, logs, i, temporal_factor, now) ==
    IF i > Len(logs) THEN [status |-> "ok", value |-> <<>>]
    ELSE LET log_id == IdOf(logs[i])
             Attended(similarity) ==
                 LET days_ago == Days(now - DateOf(logs[i], now))
                     recency == ExpDecay30(days_ago)
                     attention == RAdd(RMul(RSub(One, temporal_factor), similarity.value),
                                       RMul(temporal_factor, recency))
                     Rest(rest) ==
                         IF rest.status # "ok" THEN rest
                         ELSE [status |-> "ok",
                               value  |-> rest.value @@ (log_id :> attention)]
                 IN  IF similarity.status # "ok"
                     THEN [status |-> similarity.status, value |-> <<>>]
                     ELSE IF ~Parseable(logs[i])
                     THEN [status |-> "ValueError", value |-> <<>>]
                     ELSE With(AttentionScores(query_embedding, log_embeddings, logs,
                                               i + 1, temporal_factor, now), Rest)
         IN  With(ComputeSimilarity(query_embedding, log_embeddings[log_id]), Attended)

\* get_attention_weights(query, logs, temporal_factor) called at time now:
\* the cache after the call, the status and the dict returned.
GetAttentionWeights(cache, query, logs, temporal_factor, now, m) ==
    LET Queried(q) ==
            LET Embedded(e) ==
                    LET Scored(s) ==
                            [cache  |-> e.cache,
                             status |-> s.status,
                             value  |-> IF s.status = "ok"
                                        THEN NormalizeScores(s.value) ELSE <<>>]
                    IN  With(AttentionScores(q.value, e.log_embeddings, logs, 1,
                                             temporal_factor, now), Scored)
            IN  With(EmbedLogs(q.cache, logs, 1, <<>>, <<>>, m), Embedded)
    IN  With(GetEmbedding(cache, query, m.key, m.up, m.dimension), Queried)

\* Lines 345-347: max(0, similarity) for every memory; a ValueError of
\* compute_similarity ends the call.
SimilarityScores(query_embedding, memory_embeddings) ==
    LET Kept(similarities) ==
            IF \E k \in DOMAIN similarities : similarities[k].status # "ok"
            THEN [status |-> "ValueError", value |-> <<>>]
            ELSE [status |-> "ok",
                  value  |-> [k \in DOMAIN similarities |->
                                 PyMax(Zero, similarities[k].value)]]
    IN  With([k \in DOMAIN memory_embeddings |->
                 ComputeSimilarity(query_embedding, memory_embeddings[k])], Kept)

\* Lines 350-360: the decay by age of the scores that have a timestamp in
\* ISO format.
TimeDecayed(similarity_scores, timestamps, now) ==
    [k \in DOMAIN similarity_scores |->
        IF k \in DOMAIN timestamps /\ timestamps[k] # BadTime
        THEN RMul(similarity_scores[k], ExpDecay30(Days(now - timestamps[k])))
        ELSE similarity_scores[k]]

\* Lines 363-367: 70% score, 30% user weight
Blended(similarity_scores, user_weights) ==
    [k \in DOMAIN similarity_scores |->
        IF k \in DOMAIN user_weights
        THEN RAdd(RMul(Rat(7, 10), similarity_scores[k]),
                  RMul(Rat(3, 10), user_weights[k]))
        ELSE similarity_scores[k]]

\* get_lightweight_attention(query_embedding, memory_embeddings, timestamps,
\* user_weights) called at time now; None and the empty dict are <<>>.
GetLightweightAttention(query_embedding, memory_embeddings, timestamps, user_weights, now) ==
    IF DOMAIN memory_embeddings = {} THEN [status |-> "ok", value |-> <<>>]
    ELSE LET Scored(s) ==
                 IF s.status # "ok" THEN s
                 ELSE [status |-> "ok",
                       value  |-> NormalizeScores(
                                      Blended(TimeDecayed(s.value, timestamps, now),
                                              user_weights))]
         IN  With(SimilarityScores(query_embedding, memory_embeddings), Scored)

\* MemoryModel.get_attention_weights(query, logs, temporal_factor)
get_attention_weights(query, logs, temporal_factor, now) ==
    \E r \in {GetAttentionWeights(embeddings_cache, query, logs, temporal_factor, now,
                                  ModelConfig)} :
        /\ embeddings_cache' = r.cache
        /\ first_since_clear' = HistoryAfter(first_since_clear, r.cache)
        /\ first_ever' = HistoryAfter(first_ever, r.cache)
        /\ call' = [op |-> "get_attention_weights", query |-> query, logs |-> logs,
                    temporal_factor |-> temporal_factor, now |-> now]
        /\ ret' = [status |-> r.status, value |-> r.value]
        /\ UNCHANGED <<analyzer_vars, engine_vars, config_vars, api_up, ncalls>>

\* MemoryModel.get_lightweight_attention(query_embedding, memory_embeddings,
\* timestamps, user_weights)
get_lightweight_attention(query_embedding, memory_embeddings, timestamps, user_weights, now) ==
    \E r \in {GetLightweightAttention(query_embedding, memory_embeddings, timestamps,
                                      user_weights, now)} :
        /\ call' = [op |-> "get_lightweight_attention",
                    query_embedding |-> query_embedding,
                    memory_embeddings |-> memory_embeddings,
                    timestamps |-> timestamps, user_weights |-> user_weights,
                    now |-> now]
        /\ ret' = [status |-> r.status, value |-> r.value]
        /\ UNCHANGED <<analyzer_vars, engine_vars, model_vars, config_vars, api_up, ncalls>>

MaxAttentionLogs == 2

\* The inputs of the attention calls; the clock reads RankNow.
AttentionLogs ==
    {[id |-> "a", content |-> TMeeting, start_time |-> 24],
     [id |-> "b", content |-> THello, start_time |-> 0],
     [id |-> "c", content |-> TLunch]}
AttentionQueries == {TMeeting, THello}
TemporalFactors == {Zero, Rat(3, 10), One}
AttentionVectors ==
    {<<One, Zero, Zero>>, <<Zero, One, Zero>>, <<Rat(3, 5), Rat(4, 5), Zero>>,
     <<Rat(-3, 5), Rat(-4, 5), Zero>>, <<One>>}
MemoryIds == {"a", "b"}
\* All dicts from some of the ids to the values
DictsOver(ids, values) == UNION {[S -> values] : S \in SUBSET ids}
AttentionTimestamps == {<<>>, [a |-> 0], [a |-> BadTime, b |-> 24]}
AttentionUserWeights == {<<>>, [a |-> One], [b |-> Zero]}

InitAttention ==
    /\ Constructed
    /\ embedding_api_key = FALSE
    /\ embedding_dimension = 3
    /\ embedding_provider = TRUE
    /\ api_up = TRUE

AttentionWeights ==
    /\ call.op = "none"
    /\ \E logs \in SeqsUpTo(AttentionLogs, MaxAttentionLogs),
          query \in AttentionQueries,
          temporal_factor \in TemporalFactors :
          get_attention_weights(query, logs, temporal_factor, RankNow)

LightweightAttention ==
    /\ call.op = "none"
    /\ \E query_embedding \in AttentionVectors,
          memory_embeddings \in DictsOver(MemoryIds, AttentionVectors),
          timestamps \in AttentionTimestamps,
          user_weights \in AttentionUserWeights :
          get_lightweight_attention(query_embedding, memory_embeddings, timestamps,
                                    user_weights, RankNow)

NextAttention ==
    \/ AttentionWeights
    \/ LightweightAttention

\* One call of get_attention_weights or of get_lightweight_attention on a
\* fresh memory model without API key.
SpecAttention == InitAttention /\ [][NextAttention]_vars

\* C24: the attention distribution returned by get_attention_weights and by
\* get_lightweight_attention for a non-empty set of entries sums to 1.0
\* across the set, for every query, set of entries and timestamps.
C24_AttentionSumsToOne ==
    (/\ call.op \in {"get_attention_weights", "get_lightweight_attention"}
     /\ ret.status = "ok"
     /\ DOMAIN ret.value # {})
    => SumOver(ret.value, DOMAIN ret.value) = One

(***************************************************************************)
(* get_recommendations: the state one call leaves to the next              *)
(***************************************************************************)
\* C25: a get_recommendations call on a list that is not empty and without
\* user preferences fuses with the default strategy weights 0.5, 0.3 and
\* 0.2, whatever preferences earlier calls supplied: the strategy weights
\* a call uses depend on its arguments alone.
C25_StrategyWeightsPerCall ==
    (/\ call.op = "get_recommendations"
     /\ call.logs # <<>>
     /\ DOMAIN call.user_preferences = {}
     /\ ret.status = "ok")
    => strategy_weights = DefaultStrategyWeights

(***************************************************************************)
(* Two threads of the web server inside MemoryModel.get_embedding of the   *)
(* one MemoryModel of the process (app.py, line 27), for the same text.    *)
(* The method takes no lock; a thread can be preempted between any two of  *)
(* its accesses to embeddings_cache and while it waits for the service.    *)
(* call.pc[t] is the position of thread t, call.embedding[t] its local     *)
(* variable embedding, ret.value[t] what its call returned.                *)
(***************************************************************************)
Threads == {1, 2}

\* Both threads are inside get_embedding(call.text).
Racing == call.op = "get_embedding (two threads)"

\* Thread t moves to position pc with its local embedding and return value
\* as given; the call of the last thread to finish completes the race.
ThreadStep(t, pc, embedding, value) ==
    /\ call' = [call EXCEPT !.pc[t] = pc, !.embedding[t] = embedding]
    /\ ret' = [status |-> IF \A u \in Threads : call'.pc[u] = "done"
                          THEN "ok" ELSE "running",
               value  |-> [ret.value EXCEPT ![t] = value]]

\* Two threads call get_embedding(text) at the same time.
GetEmbeddingEnter(text) ==
    /\ call = NoCall
    /\ call' = [op |-> "get_embedding (two threads)", text |-> text,
                pc |-> [t \in Threads |-> "check"],
                embedding |-> [t \in Threads |-> NoVector]]
    /\ ret' = [status |-> "running", value |-> [t \in Threads |-> NoVector]]
    /\ UNCHANGED <<analyzer_vars, engine_vars, model_vars, config_vars, api_up, ncalls>>

\* Lines 44-48: the cache is looked up; a hit is returned, a miss goes to
\* the external call when a key is configured and to the fallback when not.
GetEmbeddingCheck(t) ==
    /\ Racing /\ call.pc[t] = "check"
    /\ IF call.text \in DOMAIN embeddings_cache
       THEN ThreadStep(t, "done", NoVector, embeddings_cache[call.text])
       ELSE ThreadStep(t, IF embedding_api_key THEN "request" ELSE "fallback",
                       NoVector, NoVector)
    /\ UNCHANGED <<analyzer_vars, engine_vars, model_vars, config_vars, api_up, ncalls>>

\* Lines 49-50 and 53-55: the external call returns the remote vector, or
\* raises and the exception is caught.
GetEmbeddingRequest(t) ==
    /\ Racing /\ call.pc[t] = "request"
    /\ IF api_up
       THEN ThreadStep(t, "store", OpenAIEmbedding(call.text), NoVector)
       ELSE ThreadStep(t, "fallback", NoVector, NoVector)
    /\ UNCHANGED <<analyzer_vars, engine_vars, model_vars, config_vars, api_up, ncalls>>

\* The cache after self.embeddings_cache[text] = embedding: an assignment,
\* which replaces what the text was mapped to.
CacheStore(cache, text, embedding) == (text :> embedding) @@ cache

\* Lines 51-52: the remote vector is cached and returned.
GetEmbeddingStore(t) ==
    /\ Racing /\ call.pc[t] = "store"
    /\ embeddings_cache' = CacheStore(embeddings_cache, call.text, call.embedding[t])
    /\ first_since_clear' = HistoryAfter(first_since_clear, embeddings_cache')
    /\ first_ever' = HistoryAfter(first_ever, embeddings_cache')
    /\ ThreadStep(t, "done", call.embedding[t], call.embedding[t])
    /\ UNCHANGED <<analyzer_vars, engine_vars, config_vars, api_up, ncalls>>

\* Lines 58-60: the fallback vector is computed, cached and returned.
GetEmbeddingFallback(t) ==
    /\ Racing /\ call.pc[t] = "fallback"
    /\ \E embedding \in {SimpleEmbedding(call.text, embedding_dimension)} :
          /\ embeddings_cache' = CacheStore(embeddings_cache, call.text, embedding)
          /\ first_since_clear' = HistoryAfter(first_since_clear, embeddings_cache')
          /\ first_ever' = HistoryAfter(first_ever, embeddings_cache')
          /\ ThreadStep(t, "done", embedding, embedding)
    /\ UNCHANGED <<analyzer_vars, engine_vars, config_vars, api_up, ncalls>>

InitRace ==
    /\ Constructed
    /\ embedding_api_key \in BOOLEAN
    /\ embedding_dimension \in EmbeddingDimensions
    /\ embedding_provider = TRUE
    /\ api_up \in BOOLEAN

\* The service goes down or comes back while the threads run.
RaceApiFails == Racing /\ ApiFails
RaceApiRecovers == Racing /\ ApiRecovers

NextRace ==
    \/ \E text \in Texts : GetEmbeddingEnter(text)
    \/ \E t \in Threads : GetEmbeddingCheck(t)
    \/ \E t \in Threads : GetEmbeddingRequest(t)
    \/ \E t \in Threads : GetEmbeddingStore(t)
    \/ \E t \in Threads : GetEmbeddingFallback(t)
    \/ RaceApiFails
    \/ RaceApiRecovers

\* Two concurrent get_embedding calls for one text missing from the cache,
\* in every interleaving.
SpecRace == InitRace /\ [][NextRace]_vars

\* C26: when two concurrent get_embedding calls for the same uncached text
\* have both returned, they returned the same vector and the cache holds
\* that vector, also when the external call succeeded for one and failed
\* for the other.
C26_ConcurrentFillConverges ==
    (Racing /\ ret.status = "ok")
    => /\ ret.value[1] = ret.value[2]
       /\ call.text \in DOMAIN embeddings_cache
       /\ embeddings_cache[call.text] = ret.value[1]

(***************************************************************************)
(* One thread in MemoryAnalyzer.compute_memory_relevance (the reader) and  *)
(* one in update_relevance_weights (the writer) of the one MemoryAnalyzer  *)
(* of the process (app.py, line 28).  Neither method takes a lock or       *)
(* copies the weights: the reader can be preempted between two of its      *)
(* reads of self.relevance_weights, the writer between two of its writes.  *)
(***************************************************************************)
\* The order in which lines 155-160 read the weights, and the order in
\* which a loop over the dict visits them (the order of lines 23-28).
ReadOrder == <<"recency", "similarity", "frequency", "importance">>
DictOrder == <<"recency", "frequency", "similarity", "importance">>

\* The first key of the order that is not among those done.
NextKey(order, done) ==
    order[CHOOSE i \in DOMAIN order :
              order[i] \notin done /\ \A j \in 1..(i - 1) : order[j] \in done]

Overlapping == call.op = "compute_memory_relevance and update_relevance_weights"

\* Lines 143-152 of compute_memory_relevance: the entry's fields and the
\* three scores, computed before any weight is read.
RelevanceScores(cache, log, query, logs_access_frequency, now, m) ==
    LET Scored(sim) ==
            [cache |-> sim.cache,
             recency |-> ComputeRecencyScore(DateOf(log, now), now),
             similarity |-> sim.value,
             frequency |-> FrequencyScore(IdOf(log), logs_access_frequency),
             importance |-> Get(log, "importance", Rat(1, 2))]
    IN  With(ComputeSimilarityScore(cache, Get(log, "content", TEmpty), query, m), Scored)

\* The two threads enter their methods at the same time.
RelevanceEnter(log, query, logs_access_frequency, now, new_weights) ==
    /\ call = NoCall
    /\ call' = [op |-> "compute_memory_relevance and update_relevance_weights",
                log |-> log, query |-> query,
                logs_access_frequency |-> logs_access_frequency, now |-> now,
                new_weights |-> new_weights, weights_before |-> relevance_weights,
                reader |-> "scores", scores |-> <<>>, used |-> <<>>,
                writer |-> "validate", total |-> Zero, divided |-> {}]
    /\ ret' = [status |-> "running", value |-> NaN]
    /\ UNCHANGED <<analyzer_vars, engine_vars, model_vars, config_vars, api_up, ncalls>>

\* Reader, lines 143-152.
ReaderScores ==
    /\ Overlapping /\ call.reader = "scores"
    /\ \E r \in {RelevanceScores(embeddings_cache, call.log, call.query,
                                 call.logs_access_frequency, call.now, ModelConfig)} :
          /\ embeddings_cache' = r.cache
          /\ first_since_clear' = HistoryAfter(first_since_clear, r.cache)
          /\ first_ever' = HistoryAfter(first_ever, r.cache)
          /\ call' = [call EXCEPT !.reader = "read", !.scores = r]
    /\ UNCHANGED <<analyzer_vars, engine_vars, config_vars, api_up, ncalls, ret>>

\* Reader, lines 155-162: self.relevance_weights[key] is read for the next
\* key; after the fourth read the relevance is combined and returned.
ReaderRead ==
    /\ Overlapping /\ call.reader = "read"
    /\ \E key \in {NextKey(ReadOrder, DOMAIN call.used)} :
       \E used \in {(key :> relevance_weights[key]) @@ call.used} :
          IF DOMAIN used = WeightKeys
          THEN /\ call' = [call EXCEPT !.reader = "done", !.used = used]
               /\ ret' = [status |-> "ok",
                          value |-> CombineScores(used, call.scores.recency,
                                                  call.scores.similarity,
                                                  call.scores.frequency,
                                                  call.scores.importance)]
          ELSE /\ call' = [call EXCEPT !.used = used]
               /\ UNCHANGED ret
    /\ UNCHANGED <<analyzer_vars, engine_vars, model_vars, config_vars, api_up, ncalls>>

\* Writer, lines 308-311: an unknown key raises ValueError.
WriterValidate ==
    /\ Overlapping /\ call.writer = "validate"
    /\ call' = [call EXCEPT !.writer = IF HasInvalidKey(relevance_weights, call.new_weights)
                                       THEN "raised" ELSE "update"]
    /\ UNCHANGED <<analyzer_vars, engine_vars, model_vars, config_vars, api_up, ncalls, ret>>

\* Writer, line 314: self.relevance_weights.update(new_weights).
WriterUpdate ==
    /\ Overlapping /\ call.writer = "update"
    /\ relevance_weights' = MergeWeights(relevance_weights, call.new_weights)
    /\ call' = [call EXCEPT !.writer = "sum"]
    /\ UNCHANGED <<engine_vars, model_vars, config_vars, api_up, ncalls, ret>>

\* Writer, lines 317-318: the total of the merged weights; the loop is
\* entered only when it is positive.
WriterSum ==
    /\ Overlapping /\ call.writer = "sum"
    /\ \E total_weight \in {SumOver(relevance_weights, DOMAIN relevance_weights)} :
          call' = [call EXCEPT !.total = total_weight,
                               !.writer = IF RGt(total_weight, Zero)
                                          THEN "divide" ELSE "returned"]
    /\ UNCHANGED <<analyzer_vars, engine_vars, model_vars, config_vars, api_up, ncalls, ret>>

\* Writer, lines 319-320: one round of the loop divides one weight.
WriterDivide ==
    /\ Overlapping /\ call.writer = "divide"
    /\ \E key \in {NextKey(DictOrder, call.divided)} :
          /\ relevance_weights' =
                [relevance_weights EXCEPT ![key] = RDiv(relevance_weights[key], call.total)]
          /\ call' = [call EXCEPT !.divided = call.divided \cup {key},
                                  !.writer = IF call.divided \cup {key} = WeightKeys
                                             THEN "returned" ELSE "divide"]
    /\ UNCHANGED <<engine_vars, model_vars, config_vars, api_up, ncalls, ret>>

\* The arguments of the two calls.
OverlapLog == [id |-> "a", content |-> TMeeting, start_time |-> 24, importance |-> One]
OverlapFrequency == [a |-> 1]

InitOverlap ==
    /\ Constructed
    /\ embedding_api_key = FALSE
    /\ embedding_dimension = 3
    /\ embedding_provider \in BOOLEAN
    /\ api_up = FALSE

NextOverlap ==
    \/ \E new_weights \in NewWeightMaps :
          RelevanceEnter(OverlapLog, TMeeting, OverlapFrequency, RankNow, new_weights)
    \/ ReaderScores
    \/ ReaderRead
    \/ WriterValidate
    \/ WriterUpdate
    \/ WriterSum
    \/ WriterDivide

\* compute_memory_relevance and update_relevance_weights running at the
\* same time on the default weights, in every interleaving.
SpecOverlap == InitOverlap /\ [][NextOverlap]_vars

\* C27: the four weights a compute_memory_relevance used while
\* update_relevance_weights ran are the four weights from before the update
\* or the four weights a completed update leaves, never a mixture of the
\* two nor the merged weights that are not yet renormalized.
C27_ReaderSeesOneWeightSet ==
    (Overlapping /\ call.reader = "done")
    => \/ call.used = call.weights_before
       \/ call.used = UpdateWeights(call.weights_before, call.new_weights).weights

(***************************************************************************)
(* get_recommendations: the ids of the returned entries                    *)
(***************************************************************************)
\* C28: every entry get_recommendations returns has a non-empty id, the id
\* of an entry of the input list, and no two returned entries have the same
\* id, also when the input holds entries without id or several entries with
\* one id.
C28_ResultIdsDistinctInputIds ==
    (call.op = "get_recommendations" /\ ret.status = "ok")
    => /\ \A k \in DOMAIN ret.value :
             /\ "id" \in DOMAIN ret.value[k]
             /\ Truthy(ret.value[k]["id"])
             /\ \E i \in DOMAIN call.logs : IdsOf(call.logs)[i] = ret.value[k]["id"]
       /\ \A j, k \in DOMAIN ret.value :
             j # k => IdsOf(ret.value)[j] # IdsOf(ret.value)[k]

\* A call with room for five results on two different entries that carry
\* the same id: one of them is returned.
C28_Witness ==
    /\ call.op = "get_recommendations"
    /\ ret.status = "ok"
    /\ call.max_results = 5
    /\ Len(call.logs) = 2
    /\ call.logs[1] # call.logs[2]
    /\ IdsOf(call.logs) = <<"a", "a">>
    /\ Len(ret.value) = 1

\* A call on an entry without id and an entry with one: only the second is
\* returned.
C28_WitnessNoId ==
    /\ call.op = "get_recommendations"
    /\ ret.status = "ok"
    /\ call.max_results = 5
    /\ IdsOf(call.logs) = <<None, "b">>
    /\ IdsOf(ret.value) = <<"b">>

(***************************************************************************)
(* get_recommendations with preferences the analyzer rejects               *)
(***************************************************************************)
MaxRejectedCalls == 2

\* Preferences with strategy weights, each 0 or 1, for any subset of the
\* three strategies, and with relevance weights that name an unknown key.
RejectedPreferences ==
    {[strategy_weights |-> sw, relevance_weights |-> rw] :
        sw \in UNION {[D -> WeightValues] : D \in SUBSET StrategyKeys},
        rw \in {[bogus |-> One], [bogus |-> One, recency |-> One]}}

NextRejected ==
    /\ ncalls < MaxRejectedCalls
    /\ \E logs \in PreferenceLogs, user_preferences \in RejectedPreferences :
          \E rand \in [DOMAIN logs -> RandInts] :
              get_recommendations(TMeeting, logs, user_preferences, 1, RankNow, rand)

\* get_recommendations called again and again with such preferences.
SpecRejected == InitPreferences /\ [][NextRejected]_vars

\* The last call was get_recommendations on a list that is not empty, with
\* strategy weights and with relevance weights that name an unknown key.
RejectedCall ==
    /\ call.op = "get_recommendations"
    /\ call.logs # <<>>
    /\ "strategy_weights" \in DOMAIN call.user_preferences
    /\ "relevance_weights" \in DOMAIN call.user_preferences
    /\ HasInvalidKey(call.relevance_weights_before,
                     call.user_preferences["relevance_weights"])

\* C29: a get_recommendations call on a list that is not empty whose
\* preferences hold strategy weights and relevance weights with an unknown
\* key fails with the invalid-key error and leaves the relevance weights as
\* they were, but the strategy weights stay as the call applied them: the
\* supplied ones merged into the previous ones and renormalized to sum 1.
C29_RejectedCallKeepsStrategyWeights ==
    RejectedCall
    => /\ ret.status = "ValueError"
       /\ relevance_weights = call.relevance_weights_before
       /\ SumOver(strategy_weights, StrategyKeys) = One
       /\ \E total \in {SumOver(MergeWeights(call.strategy_weights_before,
                                             call.user_preferences["strategy_weights"]),
                                StrategyKeys)} :
             \A k \in StrategyKeys :
                RMul(strategy_weights[k], total)
                   = MergeWeights(call.strategy_weights_before,
                                  call.user_preferences["strategy_weights"])[k]

(***************************************************************************)
(* The embedding cache under get_embedding and clear_embedding_cache       *)
(***************************************************************************)
\* The texts embedded since the last clear_embedding_cache (since
\* construction when there was none).
EmbeddedSinceClear == {t \in DOMAIN first_since_clear : first_since_clear[t] # NoVector}

\* C30: after any series of get_embedding and clear_embedding_cache calls
\* the keys of the cache are exactly the texts embedded since the last
\* clear, each mapped to the vector the first get_embedding of the text
\* since that clear returned: no entry is overwritten or evicted except by
\* clear_embedding_cache, which empties the cache.
C30_CacheIsFirstVectorsSinceClear ==
    /\ DOMAIN embeddings_cache = EmbeddedSinceClear
    /\ \A t \in DOMAIN embeddings_cache : embeddings_cache[t] = first_since_clear[t]
    /\ call.op = "clear_embedding_cache" => embeddings_cache = <<>>

\* After a clear, two texts are cached again, one of them with a vector
\* other than the one it had before the clear, and the last call was a
\* repeated get_embedding.
C30_Witness ==
    /\ call.op = "get_embedding" /\ call.again
    /\ Cardinality(DOMAIN embeddings_cache) >= 2
    /\ \E t \in DOMAIN embeddings_cache :
          /\ first_ever[t] # first_since_clear[t]
          /\ embeddings_cache[t] = first_since_clear[t]
=============================================================================
